---- MODULE Spec2Model ----
(***************************************************************************)
(* OSINTment: finding categorization and report generation.                *)
(*                                                                         *)
(* Python values are modelled as follows.                                  *)
(*   - a dict whose keys vary (a finding, scan_info) is a TLA+ record;     *)
(*     an absent key is a field that is not in its DOMAIN;                 *)
(*   - an insertion-ordered dict built by the code (categorized_data,      *)
(*     category_counts, ...) is a sequence of [k, v] entries in insertion  *)
(*     order;                                                              *)
(*   - the strings the code orders or slices (data, timestamp) are         *)
(*     sequences of character codes, compared lexicographically; the       *)
(*     strings it only compares for equality (type, module, source) are    *)
(*     TLA+ strings.                                                       *)
(***************************************************************************)
EXTENDS Integers, Sequences, FiniteSets, TLC

VARIABLES
    scan_results,      \* the caller's finding list
    scan_info,         \* the caller's scan metadata
    categorized_data,  \* ScanDataAnalyzer.categorized_data
    files,             \* the files of the output directory
    op,                \* the call the caller is in, or "idle"
    args,              \* the arguments of that call, and whether its PDF conversion succeeded
    ret,               \* what the call returned
    raised,            \* the error the call raised, or NoError
    time,              \* time.time(), in seconds
    observed,          \* the status responses wait_for_scan has received
    active_scans,      \* the scan registry of the web service
    scan_progress      \* the last status each monitor thread has seen

vars == <<scan_results, scan_info, categorized_data, files, op, args, ret, raised,
          time, observed, active_scans, scan_progress>>

----------------------------------------------------------------------------
(* Bounds of the model *)

MaxLen == 3
MaxLongLen == 6
MaxClock == 2
MaxRenderLen == 2
MaxFiles == 2
MaxTypes == 11
MaxExtra == 2
MaxTimeout == 3
MaxPollInterval == 2
MaxLatency == 1
MaxLabelLen == 3

----------------------------------------------------------------------------
(* Python helpers *)

Min(a, b) == IF a <= b THEN a ELSE b

Range(s) == {s[i] : i \in DOMAIN s}

\* dict.get(k, d)
Get(r, k, d) == IF k \in DOMAIN r THEN r[k] ELSE d

\* The empty str, for the strings modelled as sequences of character codes.
EmptyStr == <<>>

\* str < str: lexicographic comparison of code points
StrLess(a, b) ==
    \E i \in 1..(Min(Len(a), Len(b)) + 1) :
        /\ \A j \in 1..(i - 1) : a[j] = b[j]
        /\ \/ i > Len(a) /\ i <= Len(b)
           \/ i <= Len(a) /\ i <= Len(b) /\ a[i] < b[i]

\* seq[:n]
Take(seq, n) == SubSeq(seq, 1, Min(Len(seq), n))

\* The lists list(set) may return: every order of the set's elements.
ListsOfSet(S) == {s \in [1..Cardinality(S) -> S] : Range(s) = S}

\* sorted(list(set)) of strs
SortedStrs(S) ==
    CHOOSE s \in ListsOfSet(S) :
        \A i \in 1..Len(s), j \in 1..Len(s) : i < j => StrLess(s[i], s[j])

\* list.sort / sorted are stable: an element goes behind every element that
\* does not sort after it.  sorted is a sorted list, n the number of its
\* elements that do not sort after element.
InsertAfter(sorted, n, element) ==
    SubSeq(sorted, 1, n) \o <<element>> \o SubSeq(sorted, n + 1, Len(sorted))

\* The insertion-ordered dicts
DictHas(d, k) == \E i \in 1..Len(d) : d[i].k = k

DictGet(d, k) == d[CHOOSE i \in 1..Len(d) : d[i].k = k].v

DictSet(d, k, v) ==
    IF DictHas(d, k)
    THEN [i \in 1..Len(d) |-> IF d[i].k = k THEN [k |-> k, v |-> v] ELSE d[i]]
    ELSE Append(d, [k |-> k, v |-> v])

\* Faulty variant: the sort is unstable, the entries of equal counts come last
\* seen first.
SortedByCountDescLastFirst(d) ==
    [p \in 1..Len(d) |->
        d[CHOOSE i \in 1..Len(d) :
            Cardinality({j \in 1..Len(d) :
                \/ d[j].v > d[i].v
                \/ d[j].v = d[i].v /\ j > i}) + 1 = p]]

\* sorted(d.items(), key=lambda x: x[1], reverse=True) of a dict of counts
RECURSIVE CountDescLoop(_, _, _)
CountDescLoop(d, i, sorted) ==
    IF i > Len(d) THEN sorted
    ELSE CountDescLoop(d, i + 1,
             InsertAfter(sorted,
                 Cardinality({j \in 1..Len(sorted) : sorted[j].v >= d[i].v}),
                 d[i]))

SortedByCountDesc(d) == CountDescLoop(d, 1, <<>>)

----------------------------------------------------------------------------
(* ScanDataAnalyzer *)

NoError == [type |-> "none"]

DefaultConfidence == 100
TopN == 10
CriticalPerType == 5
DataTruncation == 100

SimplifiedRecord(result) ==
    [data       |-> Get(result, "data", EmptyStr),
     module     |-> Get(result, "module", ""),
     source     |-> Get(result, "source", ""),
     confidence |-> Get(result, "confidence", DefaultConfidence),
     timestamp  |-> Get(result, "timestamp", EmptyStr)]

\* Faulty variant: result.get('type') or 'Unknown', which relabels the empty type too.
DataTypeOrUnknown(result) ==
    IF Get(result, "type", "") = "" THEN "Unknown" ELSE result.type

\* The grouping key of _categorize_results
DataTypeOf(result) == Get(result, "type", "Unknown")

RECURSIVE CategorizeLoop(_, _, _)
CategorizeLoop(results, i, categories) ==
    IF i > Len(results) THEN categories
    ELSE LET data_type == DataTypeOf(results[i])
             bucket == IF DictHas(categories, data_type)
                       THEN DictGet(categories, data_type) ELSE <<>>
         IN  CategorizeLoop(results, i + 1,
                 DictSet(categories, data_type,
                         Append(bucket, SimplifiedRecord(results[i]))))

_categorize_results(results) == CategorizeLoop(results, 1, <<>>)

\* All the results of the given type, in the order the code appended them.
ItemsOf(categorized, data_type) ==
    IF DictHas(categorized, data_type) THEN DictGet(categorized, data_type) ELSE <<>>

\* datetime.isoformat(): the clock reading as a str "2026T<t>"; 84 is "T"
IsoFormat(t) == <<2, 0, 2, 6, 84, t>>

\* The str 'Unknown' where the code may sanitize the value: a str that is
\* sanitized (a target) is a sequence of chunks, ":" and "/" chunks of their own.
Unknown == <<"Unknown">>

\* Faulty variant: only the findings that carry a type are counted.
TotalTypedFindings(results) ==
    Len(SelectSeq(results, LAMBDA r : "type" \in DOMAIN r))

\* len(self.scan_results)
TotalFindings(results) == Len(results)

\* {cat: len(items) for cat, items in self.categorized_data.items()}
CategoryCounts(categorized) ==
    [i \in 1..Len(categorized) |->
        [k |-> categorized[i].k, v |-> Len(categorized[i].v)]]

\* The module key of get_executive_summary and get_module_efficiency
ModuleOf(result) == Get(result, "module", "Unknown")

\* Counter(...) / the defaultdict(int) loop: counts in first-encountered order
RECURSIVE CountLoop(_, _, _)
CountLoop(results, i, counts) ==
    IF i > Len(results) THEN counts
    ELSE LET module == ModuleOf(results[i])
             count == IF DictHas(counts, module) THEN DictGet(counts, module) ELSE 0
         IN  CountLoop(results, i + 1, DictSet(counts, module, count + 1))

ModuleFindings(results) == CountLoop(results, 1, <<>>)

\* Faulty variant: the summary is stamped with the time of the analysis.
get_executive_summary_stamped(results, info, categorized, now) ==
    [total_findings    |-> Len(results),
     unique_data_types |-> Len(categorized),
     category_counts   |-> CategoryCounts(categorized),
     top_categories    |-> Take(SortedByCountDesc(CategoryCounts(categorized)), TopN),
     module_stats      |-> Take(SortedByCountDesc(ModuleFindings(results)), TopN),
     scan_target       |-> Get(info, "target", Unknown),
     scan_name         |-> Get(info, "name", Unknown),
     scan_date         |-> IsoFormat(now)]

\* Faulty variant: the default of the target is the one generate_report uses.
get_executive_summary_unknown(results, info, categorized, now) ==
    [total_findings    |-> Len(results),
     unique_data_types |-> Len(categorized),
     category_counts   |-> CategoryCounts(categorized),
     top_categories    |-> Take(SortedByCountDesc(CategoryCounts(categorized)), TopN),
     module_stats      |-> Take(SortedByCountDesc(ModuleFindings(results)), TopN),
     scan_target       |-> Get(info, "target", <<"unknown">>),
     scan_name         |-> Get(info, "name", Unknown),
     scan_date         |-> Get(info, "created", IsoFormat(now))]

get_executive_summary(results, info, categorized, now) ==
    LET category_counts == CategoryCounts(categorized)
    IN  [total_findings    |-> TotalFindings(results),
         unique_data_types |-> Len(categorized),
         category_counts   |-> category_counts,
         top_categories    |-> Take(SortedByCountDesc(category_counts), TopN),
         module_stats      |-> Take(SortedByCountDesc(ModuleFindings(results)), TopN),
         scan_target       |-> Get(info, "target", Unknown),
         scan_name         |-> Get(info, "name", Unknown),
         scan_date         |-> Get(info, "created", IsoFormat(now))]

critical_types ==
    <<"EMAILADDR", "PHONE_NUMBER", "IP_ADDRESS", "NETBLOCK_OWNER",
      "AFFILIATE_INTERNET_NAME", "INTERNET_NAME", "WEBSERVER_TECHNOLOGY",
      "VULNERABILITY", "LEAKED_DATA", "DEFACED", "MALICIOUS_IPADDR",
      "MALICIOUS_INTERNET_NAME">>

\* Faulty variant: the slice [:5] is forgotten.
CriticalOfTypeUnlimited(categorized, data_type) ==
    LET items == IF \E i \in 1..Len(categorized) : categorized[i].k = data_type
                 THEN categorized[CHOOSE i \in 1..Len(categorized) :
                                     categorized[i].k = data_type].v
                 ELSE <<>>
    IN  [i \in 1..Len(items) |->
            [type       |-> data_type,
             data       |-> items[i].data,
             module     |-> items[i].module,
             confidence |-> items[i].confidence]]

\* self.categorized_data[data_type][:5], each item tagged with its type
CriticalOfType(categorized, data_type) ==
    LET items == Take(ItemsOf(categorized, data_type), CriticalPerType)
    IN  [i \in 1..Len(items) |->
            [type       |-> data_type,
             data       |-> items[i].data,
             module     |-> items[i].module,
             confidence |-> items[i].confidence]]

RECURSIVE CriticalLoop(_, _, _)
CriticalLoop(categorized, t, critical) ==
    IF t > Len(critical_types) THEN critical
    ELSE CriticalLoop(categorized, t + 1,
             IF DictHas(categorized, critical_types[t])
             THEN critical \o CriticalOfType(categorized, critical_types[t])
             ELSE critical)

get_critical_findings(categorized) == CriticalLoop(categorized, 1, <<>>)

\* The data of the results whose type is data_type (the sets of
\* get_domain_intelligence)
DataSetOfType(results, data_type) ==
    {Get(results[i], "data", EmptyStr) :
        i \in {j \in 1..Len(results) : Get(results[j], "type", "") = data_type}}

\* Faulty variant: the data are collected in lists, in the order of the
\* findings, and not sorted.
get_domain_intelligence_lists(results) ==
    LET DataOf(data_type) ==
            LET found == SelectSeq(results, LAMBDA r : Get(r, "type", "") = data_type)
            IN  [i \in 1..Len(found) |-> Get(found[i], "data", EmptyStr)]
    IN  [domains          |-> DataOf("INTERNET_NAME"),
         subdomains       |-> DataOf("AFFILIATE_INTERNET_NAME"),
         ip_addresses     |-> DataOf("IP_ADDRESS"),
         total_domains    |-> Len(DataOf("INTERNET_NAME")),
         total_subdomains |-> Len(DataOf("AFFILIATE_INTERNET_NAME")),
         total_ips        |-> Len(DataOf("IP_ADDRESS"))]

get_domain_intelligence(results) ==
    LET domains == DataSetOfType(results, "INTERNET_NAME")
        subdomains == DataSetOfType(results, "AFFILIATE_INTERNET_NAME")
        ip_addresses == DataSetOfType(results, "IP_ADDRESS")
    IN  [domains          |-> SortedStrs(domains),
         subdomains       |-> SortedStrs(subdomains),
         ip_addresses     |-> SortedStrs(ip_addresses),
         total_domains    |-> Cardinality(domains),
         total_subdomains |-> Cardinality(subdomains),
         total_ips        |-> Cardinality(ip_addresses)]

\* [item['data'] for item in self.categorized_data[data_type]], [] when absent
DataListOf(categorized, data_type) ==
    LET items == ItemsOf(categorized, data_type)
    IN  [i \in 1..Len(items) |-> items[i].data]

tech_types ==
    <<[k |-> "WEBSERVER_TECHNOLOGY", v |-> "Web Servers"],
      [k |-> "WEBSERVER_BANNER", v |-> "Server Banners"],
      [k |-> "SOFTWARE_USED", v |-> "Software"],
      [k |-> "OPERATING_SYSTEM", v |-> "Operating Systems"]>>

RECURSIVE TechLoop(_, _, _)
TechLoop(categorized, t, technologies) ==
    IF t > Len(tech_types) THEN technologies
    ELSE TechLoop(categorized, t + 1,
             IF DictHas(categorized, tech_types[t].k)
             THEN DictSet(technologies, tech_types[t].v,
                      SortedStrs(Range(DataListOf(categorized, tech_types[t].k))))
             ELSE technologies)

\* Faulty variant: the values are listed as found, neither sorted nor
\* freed of duplicates.
get_technology_stack_lists(categorized) ==
    SelectSeq([t \in 1..Len(tech_types) |->
                  [k |-> tech_types[t].v,
                   v |-> [i \in 1..Len(ItemsOf(categorized, tech_types[t].k)) |->
                             ItemsOf(categorized, tech_types[t].k)[i].data]]],
              LAMBDA entry : entry.v # <<>>)

get_technology_stack(categorized) == TechLoop(categorized, 1, <<>>)

get_network_intelligence(categorized) ==
    [ip_addresses |-> DataListOf(categorized, "IP_ADDRESS"),
     netblocks    |-> DataListOf(categorized, "NETBLOCK_OWNER"),
     asn_info     |-> DataListOf(categorized, "BGP_AS_OWNER"),
     bgp_info     |-> DataListOf(categorized, "BGP_AS_MEMBER")]

\* set(item['data'] for item in self.categorized_data[data_type])
ContactSet(categorized, data_type) == Range(DataListOf(categorized, data_type))

\* Faulty variant: the set() is forgotten.
ContactInformationsWithDuplicates(categorized) ==
    [emails             : {DataListOf(categorized, "EMAILADDR")},
     phone_numbers      : {DataListOf(categorized, "PHONE_NUMBER")},
     physical_addresses : {DataListOf(categorized, "PHYSICAL_ADDRESS")},
     social_profiles    : {DataListOf(categorized, "SOCIAL_MEDIA")}]

\* What get_contact_information may return: list(set(...)) has no fixed order.
ContactInformations(categorized) ==
    [emails             : ListsOfSet(ContactSet(categorized, "EMAILADDR")),
     phone_numbers      : ListsOfSet(ContactSet(categorized, "PHONE_NUMBER")),
     physical_addresses : ListsOfSet(ContactSet(categorized, "PHYSICAL_ADDRESS")),
     social_profiles    : ListsOfSet(ContactSet(categorized, "SOCIAL_MEDIA"))]

\* The entries get_security_findings appends for one raw type
SecurityOfType(categorized, data_type) ==
    LET items == ItemsOf(categorized, data_type)
    IN  [i \in 1..Len(items) |->
            [type   |-> data_type,
             data   |-> items[i].data,
             module |-> items[i].module,
             source |-> items[i].source]]

\* Faulty variant: each bucket is filled from the first of its labels only.
get_security_findings_first_label(categorized) ==
    [vulnerabilities      |-> SecurityOfType(categorized, "VULNERABILITY"),
     malicious_indicators |-> SecurityOfType(categorized, "MALICIOUS_IPADDR"),
     leaked_data          |-> SecurityOfType(categorized, "LEAKED_DATA"),
     ssl_issues           |-> SecurityOfType(categorized, "SSL_CERTIFICATE_MISMATCH")]

get_security_findings(categorized) ==
    [vulnerabilities      |-> SecurityOfType(categorized, "VULNERABILITY"),
     malicious_indicators |-> SecurityOfType(categorized, "MALICIOUS_IPADDR")
                              \o SecurityOfType(categorized, "MALICIOUS_INTERNET_NAME"),
     leaked_data          |-> SecurityOfType(categorized, "LEAKED_DATA"),
     ssl_issues           |-> SecurityOfType(categorized, "SSL_CERTIFICATE_MISMATCH")
                              \o SecurityOfType(categorized, "SSL_CERTIFICATE_EXPIRED")]

\* if result.get('timestamp'): a present, non-empty timestamp
HasTimestamp(result) ==
    "timestamp" \in DOMAIN result /\ result.timestamp # EmptyStr

TimelineEntry(result) ==
    [timestamp |-> result.timestamp,
     type      |-> Get(result, "type", "Unknown"),
     data      |-> Take(Get(result, "data", EmptyStr), DataTruncation),
     module    |-> Get(result, "module", "")]

\* timeline.sort(key=lambda x: x['timestamp'])
RECURSIVE TimelineLoop(_, _, _)
TimelineLoop(timeline, i, sorted) ==
    IF i > Len(timeline) THEN sorted
    ELSE TimelineLoop(timeline, i + 1,
             InsertAfter(sorted,
                 Cardinality({j \in 1..Len(sorted) :
                     ~StrLess(timeline[i].timestamp, sorted[j].timestamp)}),
                 timeline[i]))

\* Faulty variant: the sort is forgotten.
TimelineUnsorted(timeline) == timeline

SortTimeline(timeline) == TimelineLoop(timeline, 1, <<>>)

get_timeline_data(results) ==
    LET kept == SelectSeq(results, HasTimestamp)
    IN  SortTimeline([i \in 1..Len(kept) |-> TimelineEntry(kept[i])])

\* efficiency.sort(key=lambda x: x['findings'], reverse=True)
RECURSIVE EfficiencyLoop(_, _, _)
EfficiencyLoop(efficiency, i, sorted) ==
    IF i > Len(efficiency) THEN sorted
    ELSE EfficiencyLoop(efficiency, i + 1,
             InsertAfter(sorted,
                 Cardinality({j \in 1..Len(sorted) :
                     sorted[j].findings >= efficiency[i].findings}),
                 efficiency[i]))

\* Faulty variant: reverse=True is forgotten and then the list reversed, which
\* turns the order of the modules with equal counts around.
EfficiencyReversed(efficiency) ==
    LET ascending ==
            [p \in 1..Len(efficiency) |->
                efficiency[CHOOSE i \in 1..Len(efficiency) :
                    Cardinality({j \in 1..Len(efficiency) :
                        \/ efficiency[j].findings < efficiency[i].findings
                        \/ efficiency[j].findings = efficiency[i].findings /\ j < i}) + 1 = p]]
    IN  [p \in 1..Len(ascending) |-> ascending[Len(ascending) + 1 - p]]

SortEfficiency(efficiency) == EfficiencyLoop(efficiency, 1, <<>>)

get_module_efficiency(results) ==
    LET module_findings == ModuleFindings(results)
    IN  SortEfficiency([i \in 1..Len(module_findings) |->
            [module   |-> module_findings[i].k,
             findings |-> module_findings[i].v]])

\* generate_full_analysis, with the order list(set) gave the contacts
generate_full_analysis(results, info, categorized, now, contacts) ==
    [executive_summary    |-> get_executive_summary(results, info, categorized, now),
     critical_findings    |-> get_critical_findings(categorized),
     domain_intelligence  |-> get_domain_intelligence(results),
     technology_stack     |-> get_technology_stack(categorized),
     network_intelligence |-> get_network_intelligence(categorized),
     contact_information  |-> contacts,
     security_findings    |-> get_security_findings(categorized),
     timeline             |-> get_timeline_data(results),
     module_efficiency    |-> get_module_efficiency(results),
     categorized_data     |-> categorized]

----------------------------------------------------------------------------
(* ReportGenerator: the operations that write no file *)

\* percentage = (count / summary['total_findings'] * 100), shown as {:>5.1f}:
\* in tenths of a percent, rounded to nearest.  Division by zero has no value.
Percentage(count, total_findings) ==
    IF total_findings = 0 THEN [error |-> "ZeroDivisionError"]
    ELSE [tenths |-> (2000 * count + total_findings) \div (2 * total_findings)]

\* The loop of generate_executive_summary over summary['top_categories'][:5]
SummaryLines(summary) ==
    LET top == Take(summary.top_categories, 5)
    IN  [i \in 1..Len(top) |->
            [category   |-> top[i].k,
             count      |-> top[i].v,
             percentage |-> Percentage(top[i].v, summary.total_findings)]]

generate_executive_summary(results, info, now) ==
    LET categorized == _categorize_results(results)
        summary == get_executive_summary(results, info, categorized, now)
        domain_intel == get_domain_intelligence(results)
    IN  [target            |-> summary.scan_target,
         scan_date         |-> summary.scan_date,
         report_generated  |-> now,
         total_findings    |-> summary.total_findings,
         unique_data_types |-> summary.unique_data_types,
         total_domains     |-> domain_intel.total_domains,
         total_subdomains  |-> domain_intel.total_subdomains,
         total_ips         |-> domain_intel.total_ips,
         lines             |-> SummaryLines(summary)]

----------------------------------------------------------------------------
(* ReportGenerator: the operations that write files *)

\* The clock counts half seconds: time passes between two readings of one second.
TicksPerSecond == 2
TicksPerMinute == 60 * TicksPerSecond

\* strftime('%Y%m%d_%H%M%S'): the reading to the second
StrfSeconds(now) == ToString(now \div TicksPerSecond)

\* strftime('%B %d, %Y at %H:%M UTC'): the reading to the minute
StrfMinutes(ticks) == ToString(ticks \div TicksPerMinute)

\* scan_date_str.replace('Z', '+00:00'); 90 is "Z", 43 stands for "+00:00"
ReplaceZ(str) == [i \in 1..Len(str) |-> IF str[i] = 90 THEN 43 ELSE str[i]]

\* datetime.fromisoformat accepts "<yyyy>T<t>" and "<yyyy>T<t>+00:00"
IsIsoFormat(str) ==
    /\ Len(str) \in {6, 7}
    /\ \A i \in 1..4 : str[i] \in 0..9
    /\ str[5] = 84
    /\ str[6] \in Nat
    /\ Len(str) = 7 => str[7] = 43

\* A value that is no str is a sequence that starts with a negative tag:
\* None, a list of characters.
PyNone == <<-1>>

PyList(elements) == <<-3>> \o elements

IsStr(value) == \A i \in 1..Len(value) : value[i] >= 0

IsList(value) == Len(value) > 0 /\ value[1] = -3

\* The body of the try: the reading of the parsed date, or the error raised.
\* 'T' in x raises TypeError unless x is a str or a container, and a list
\* has no replace.
TryParseScanDate(scan_date_str, now) ==
    IF IsStr(scan_date_str)
    THEN IF 84 \in Range(scan_date_str)
         THEN IF IsIsoFormat(ReplaceZ(scan_date_str))
              THEN [ticks |-> ReplaceZ(scan_date_str)[6]]
              ELSE [error |-> "ValueError"]
         ELSE [ticks |-> now]
    ELSE IF IsList(scan_date_str)
    THEN IF 84 \in Range(Tail(scan_date_str))
         THEN [error |-> "AttributeError"]
         ELSE [ticks |-> now]
    ELSE [error |-> "TypeError"]

\* Faulty variant: except ValueError, which lets the other errors through.
ParseScanDateExceptValueError(scan_date_str, now) ==
    LET tried == TryParseScanDate(scan_date_str, now)
    IN  IF "error" \in DOMAIN tried /\ tried.error = "ValueError"
        THEN [ticks |-> now] ELSE tried

\* The scan date of the report context: parsed when the str holds a "T" and
\* parses, the current time otherwise and, the except being bare, on every
\* error.
ParseScanDate(scan_date_str, now) ==
    LET tried == TryParseScanDate(scan_date_str, now)
    IN  IF "error" \in DOMAIN tried THEN [ticks |-> now] ELSE tried

\* The configuration of the deployment, read once at import; no file is at
\* the default logo path.
Config ==
    [REPORT_AUTHOR    |-> "OSINT Team",
     COMPANY_NAME     |-> "Professional OSINT Services",
     REPORT_LOGO_PATH |-> "./osintment/templates/assets/logo.png",
     logo_exists      |-> FALSE]

\* The context, or the error that left the date parsing.
_prepare_report_context(analysis, info, now) ==
    LET summary == analysis.executive_summary
        scan_date == ParseScanDate(summary.scan_date, now)
    IN  IF "error" \in DOMAIN scan_date THEN scan_date
        ELSE
        [report_title      |-> <<"OSINT Assessment - ">> \o summary.scan_target,
         target            |-> summary.scan_target,
         scan_date         |-> StrfMinutes(scan_date.ticks),
         report_date       |-> StrfMinutes(now),
         author            |-> Config.REPORT_AUTHOR,
         company_name      |-> Config.COMPANY_NAME,
         logo_path         |-> IF Config.logo_exists
                               THEN Config.REPORT_LOGO_PATH ELSE "None",
         summary           |-> summary,
         critical_findings |-> analysis.critical_findings,
         domain_intel      |-> analysis.domain_intelligence,
         technology_stack  |-> analysis.technology_stack,
         network_intel     |-> analysis.network_intelligence,
         contacts          |-> analysis.contact_information,
         security_findings |-> analysis.security_findings,
         timeline          |-> analysis.timeline,
         module_efficiency |-> analysis.module_efficiency]

\* template.render(**context): the text the template makes of the context
_render_html(context) == [template |-> "report_template.html", context |-> context]

\* A file of the output directory: its name is a stem and a suffix.
FilePath(stem, suffix) == [stem |-> stem, suffix |-> suffix]

\* Path.with_suffix
with_suffix(path, suffix) == [path EXCEPT !.suffix = suffix]

\* write_text / open(path, 'w'): the file is created or replaced
WriteFile(fs, path, kind, payload) ==
    {f \in fs : f.path # path}
        \cup {[path |-> path, content |-> [kind |-> kind, payload |-> payload]]}

FileExists(fs, path) == \E f \in fs : f.path = path

ReadFile(fs, path) == (CHOOSE f \in fs : f.path = path).content

\* target.replace(':', '_').replace('/', '_')
Sanitize(target) ==
    [i \in 1..Len(target) |-> IF target[i] \in {":", "/"} THEN "_" ELSE target[i]]

\* if not output_filename: the synthesized stem.  No filename is <<>>.
ReportStem(output_filename, info, now) ==
    IF output_filename = <<>>
    THEN <<"osint_report_">> \o Sanitize(Get(info, "target", <<"unknown">>))
             \o <<"_", StrfSeconds(now)>>
    ELSE output_filename

\* Faulty variant: the fallback is written and the failure swallowed.
_generate_pdf_silently(fs, html_content, output_path, pdf_ok) ==
    IF pdf_ok
    THEN [files  |-> WriteFile(fs, output_path, "pdf", html_content),
          raised |-> NoError]
    ELSE [files  |-> WriteFile(fs, with_suffix(output_path, "html"), "text", html_content),
          raised |-> NoError]

\* _generate_pdf: the files after the call and the error it raises
_generate_pdf(fs, html_content, output_path, pdf_ok) ==
    IF pdf_ok
    THEN [files  |-> WriteFile(fs, output_path, "pdf", html_content),
          raised |-> NoError]
    ELSE [files  |-> WriteFile(fs, with_suffix(output_path, "html"), "text", html_content),
          raised |-> [type |-> "RuntimeError",
                      html_path |-> with_suffix(output_path, "html")]]

\* Faulty variant: the HTML is written first, whatever the format.
SaveReportHtmlFirst(fs, html_content, output_path, output_format, pdf_ok) ==
    IF output_format = "html"
    THEN [files |-> WriteFile(fs, output_path, "text", html_content), raised |-> NoError]
    ELSE IF output_format = "pdf"
    THEN _generate_pdf(WriteFile(fs, with_suffix(output_path, "html"), "text", html_content),
                       html_content, output_path, pdf_ok)
    ELSE [files  |-> WriteFile(fs, with_suffix(output_path, "html"), "text", html_content),
          raised |-> [type |-> "ValueError", format |-> output_format]]

\* Save based on format
SaveReport(fs, html_content, output_path, output_format, pdf_ok) ==
    IF output_format = "html"
    THEN [files |-> WriteFile(fs, output_path, "text", html_content), raised |-> NoError]
    ELSE IF output_format = "pdf"
    THEN _generate_pdf(fs, html_content, output_path, pdf_ok)
    ELSE [files |-> fs, raised |-> [type |-> "ValueError", format |-> output_format]]

\* What the environment gives a call: the clock reading, the order list(set)
\* gave the contacts and whether WeasyPrint converted the HTML.
Envs(results) ==
    [now      : 0..MaxClock,
     contacts : ContactInformations(_categorize_results(results)),
     pdf_ok   : BOOLEAN]

\* The environment of a call that saves output_format: WeasyPrint is asked
\* only for a PDF, so its answer is drawn for that format alone.
EnvsOf(results, output_format) ==
    {env \in Envs(results) : output_format = "pdf" \/ env.pdf_ok}

\* The environment of a call that returns before it reads any of it
NoEnv(results) ==
    [now      |-> 0,
     contacts |-> CHOOSE contacts \in ContactInformations(_categorize_results(results)) : TRUE,
     pdf_ok   |-> TRUE]

\* generate_report: the files after the call, the path returned and the
\* error raised.
generate_report(fs, results, info, output_format, output_filename, env) ==
    LET analysis == generate_full_analysis(results, info,
                        _categorize_results(results), env.now, env.contacts)
        context == _prepare_report_context(analysis, info, env.now)
        html_content == _render_html(context)
        output_path == FilePath(ReportStem(output_filename, info, env.now), output_format)
        saved == SaveReport(fs, html_content, output_path, output_format, env.pdf_ok)
    IN  IF "error" \in DOMAIN context
        THEN [files |-> fs, ret |-> <<>>, raised |-> [type |-> context.error]]
        ELSE [files  |-> saved.files,
              ret    |-> IF saved.raised.type = "none" THEN output_path ELSE <<>>,
              raised |-> saved.raised]

\* Faulty variant: the views are dumped without the categorized index.
JsonDumpOfViews(analysis) ==
    [key \in DOMAIN analysis \ {"categorized_data"} |-> analysis[key]]

\* json.dump(analysis, f, indent=2, default=str): what json.load reads back.
\* Every value of the analysis is a dict with str keys, a list, a str or an
\* int, which JSON holds as they are; the (category, count) tuples of
\* top_categories are written as two-element arrays.
JsonDump(analysis) ==
    [analysis EXCEPT !.executive_summary.top_categories =
        [i \in 1..Len(@) |-> <<@[i].k, @[i].v>>]]

\* Faulty variant: an empty finding list writes no file, as in the CSV export.
generate_json_export_or_nothing(fs, results, info, output_path, now, contacts) ==
    IF results = <<>> THEN fs
    ELSE WriteFile(fs, output_path, "json",
             JsonDump(generate_full_analysis(results, info, _categorize_results(results),
                                             now, contacts)))

generate_json_export(fs, results, info, output_path, now, contacts) ==
    WriteFile(fs, output_path, "json",
        JsonDump(generate_full_analysis(results, info, _categorize_results(results),
                                        now, contacts)))

\* The sorted union of the keys of the records.  The keys a finding may
\* hold, in alphabetical order:
FindingKeys == <<"confidence", "data", "module", "source", "timestamp", "type">>

\* Faulty variant: the field names are the keys of the first record.
CsvHeaderOfFirstRecord(results) ==
    SelectSeq(FindingKeys, LAMBDA key : key \in DOMAIN results[1])

CsvHeader(results) ==
    SelectSeq(FindingKeys, LAMBDA key : \E i \in 1..Len(results) : key \in DOMAIN results[i])

\* DictWriter.writerows: one row per record, a missing key an empty cell
CsvRows(results, header) ==
    [i \in 1..Len(results) |->
        [c \in 1..Len(header) |->
            IF header[c] \in DOMAIN results[i]
            THEN [cell |-> results[i][header[c]]] ELSE [empty |-> TRUE]]]

generate_csv_export(fs, results, output_path) ==
    IF results = <<>> THEN fs
    ELSE WriteFile(fs, output_path, "csv",
             [header |-> CsvHeader(results),
              rows   |-> CsvRows(results, CsvHeader(results))])

----------------------------------------------------------------------------
(* The inputs *)

\* The finding lists of at most n findings drawn from S
BoundedSeq(S, n) == UNION {[1..m -> S] : m \in 0..n}

\* Findings of every shape the pipeline distinguishes: absent and empty type,
\* types differing in case only, equal and different data within one type,
\* absent modules, absent and empty timestamps, and timestamps whose
\* lexicographic order ("10" < "2") is not their numeric order.
Findings ==
    {[type |-> "EMAILADDR", data |-> <<1>>, module |-> "sfp_email",
      source |-> "ROOT", confidence |-> 90, timestamp |-> <<2>>],
     [type |-> "EMAILADDR", data |-> <<2>>, module |-> "sfp_dns",
      timestamp |-> <<2>>],
     [type |-> "emailaddr", data |-> <<2>>, timestamp |-> EmptyStr],
     [data |-> <<1>>, module |-> "sfp_email"],
     [type |-> "", data |-> <<2>>, module |-> "Unknown", timestamp |-> <<1, 0>>],
     [type |-> "PHONE_NUMBER", data |-> <<1>>, module |-> "sfp_dns",
      timestamp |-> <<1>>]}

\* A few findings for the long lists: more than five findings of one type.
LongFindings ==
    {[type |-> "EMAILADDR", data |-> <<1>>, module |-> "sfp_email",
      timestamp |-> <<2>>],
     [type |-> "EMAILADDR", data |-> <<2>>, module |-> "sfp_dns",
      timestamp |-> <<1>>],
     [type |-> "IP_ADDRESS", data |-> <<1>>, module |-> "sfp_portscan",
      confidence |-> 90]}

\* Findings of domains, subdomains and addresses: equal names, names whose
\* order as strs ("10" < "2") is not the order of the findings, and a name
\* without data.
DomainFindings ==
    {[type |-> "INTERNET_NAME", data |-> <<2>>, module |-> "sfp_dns"],
     [type |-> "INTERNET_NAME", data |-> <<1, 0>>],
     [type |-> "INTERNET_NAME"],
     [type |-> "AFFILIATE_INTERNET_NAME", data |-> <<2>>],
     [type |-> "IP_ADDRESS", data |-> <<1>>, module |-> "sfp_dns"]}

\* Findings of the six security labels and of a label next to them that
\* get_security_findings does not name; some lack module and source.
SecurityFindings ==
    {[type |-> "VULNERABILITY", data |-> <<1>>, module |-> "sfp_vuln", source |-> "ROOT"],
     [type |-> "MALICIOUS_IPADDR", data |-> <<1>>, module |-> "sfp_abuse"],
     [type |-> "MALICIOUS_INTERNET_NAME", data |-> <<1>>, module |-> "sfp_abuse"],
     [type |-> "LEAKED_DATA", data |-> <<2>>],
     [type |-> "SSL_CERTIFICATE_MISMATCH", data |-> <<1>>, source |-> "ROOT"],
     [type |-> "SSL_CERTIFICATE_EXPIRED", data |-> <<1>>, module |-> "sfp_ssl"],
     [type |-> "MALICIOUS_SUBNET", data |-> <<1>>, module |-> "sfp_abuse"]}

\* Findings of the four technology labels, two values of one label whose
\* order as strs ("10" < "2") is not their numeric order, and a label next to
\* them that get_technology_stack does not name.
TechFindings ==
    {[type |-> "WEBSERVER_TECHNOLOGY", data |-> <<2>>, module |-> "sfp_web"],
     [type |-> "WEBSERVER_TECHNOLOGY", data |-> <<1, 0>>],
     [type |-> "WEBSERVER_BANNER", data |-> <<1>>],
     [type |-> "SOFTWARE_USED", data |-> <<1>>],
     [type |-> "OPERATING_SYSTEM", data |-> <<2>>],
     [type |-> "WEBSERVER_HTTPHEADERS", data |-> <<1>>]}

\* The finding lists with many types and modules: one finding of each of n
\* types, each from a module of its own, then a few more findings of the
\* first and the last of these types and modules.
WideFinding(t, m) == [type |-> ToString(t), data |-> <<1>>, module |-> ToString(m)]

WideLists ==
    {[i \in 1..n |-> WideFinding(i, i)] \o tail :
        n \in {0, MaxTypes - 1, MaxTypes},
        tail \in BoundedSeq({WideFinding(MaxTypes, 1), WideFinding(1, MaxTypes),
                             WideFinding(MaxTypes - 1, MaxTypes)}, MaxExtra)}

\* Values of the created field: a date with a trailing "Z" (90), the empty
\* str, a date without time, a malformed str with a "T" (84), None and a
\* list that holds a "T".
CreatedValues ==
    {<<2, 0, 2, 4, 84, 300, 90>>, EmptyStr, <<2, 0, 2, 4>>, <<84, 300>>,
     PyNone, PyList(<<84>>)}

FullScanInfo ==
    [id |-> "s1", name |-> <<"scan">>, target |-> <<"http", ":", "/", "/", "example.com">>,
     created |-> <<2, 0, 2, 4, 84, 1>>]

\* Scan metadata with and without the fields the summary echoes
ScanInfos ==
    {FullScanInfo,
     [id |-> "s1", target |-> <<"example.com">>],
     [id |-> "s1"]}
    \cup {[id |-> "s1", target |-> <<"example.com">>, created |-> created] :
             created \in CreatedValues}

Clock == 0..MaxClock

----------------------------------------------------------------------------
(* The analysis engine: one analyzer, built from the caller's finding list, *)
(* and the calls made on it.                                                *)

Init ==
    /\ \/ /\ scan_results \in BoundedSeq(Findings, MaxLen)
             \cup BoundedSeq(LongFindings, MaxLongLen)
             \cup BoundedSeq(DomainFindings, MaxLen)
             \cup WideLists
          /\ scan_info = FullScanInfo
       \/ /\ scan_results \in BoundedSeq(Findings, 1)
          /\ scan_info \in ScanInfos
    /\ categorized_data = _categorize_results(scan_results)
    /\ files = {}
    /\ op = "idle"
    /\ args = <<>>
    /\ ret = <<>>
    /\ raised = NoError
    /\ time = 0
    /\ observed = <<>>
    /\ active_scans = <<>>
    /\ scan_progress = <<>>

\* A call that returns value and changes nothing else.
Returns(name, value) ==
    /\ op = "idle"
    /\ op' = name
    /\ ret' = value
    /\ raised' = NoError
    /\ UNCHANGED <<active_scans, scan_progress, time, observed, scan_results, scan_info, categorized_data, files, args>>

GetExecutiveSummary ==
    \E now \in Clock :
        Returns("get_executive_summary",
                get_executive_summary(scan_results, scan_info, categorized_data, now))

GetCriticalFindings ==
    Returns("get_critical_findings", get_critical_findings(categorized_data))

GetDomainIntelligence ==
    Returns("get_domain_intelligence", get_domain_intelligence(scan_results))

GetTechnologyStack ==
    Returns("get_technology_stack", get_technology_stack(categorized_data))

GetNetworkIntelligence ==
    Returns("get_network_intelligence", get_network_intelligence(categorized_data))

GetContactInformation ==
    \E contacts \in ContactInformations(categorized_data) :
        Returns("get_contact_information", contacts)

GetSecurityFindings ==
    Returns("get_security_findings", get_security_findings(categorized_data))

GetTimelineData ==
    Returns("get_timeline_data", get_timeline_data(scan_results))

GetModuleEfficiency ==
    Returns("get_module_efficiency", get_module_efficiency(scan_results))

\* Faulty variant: the timeline is built by filtering the caller's list in place.
GenerateFullAnalysisInPlace ==
    \E now \in 0..MaxClock, contacts \in ContactInformations(categorized_data) :
        /\ op = "idle"
        /\ op' = "generate_full_analysis"
        /\ ret' = generate_full_analysis(scan_results, scan_info, categorized_data,
                                         now, contacts)
        /\ raised' = NoError
        /\ scan_results' = SelectSeq(scan_results, HasTimestamp)
        /\ UNCHANGED <<active_scans, scan_progress, time, observed, scan_info, categorized_data, files, args>>

GenerateFullAnalysis ==
    \E now \in Clock, contacts \in ContactInformations(categorized_data) :
        Returns("generate_full_analysis",
                generate_full_analysis(scan_results, scan_info, categorized_data,
                                       now, contacts))

\* ReportGenerator.generate_executive_summary builds its own analyzer from
\* the same finding list; the text is returned unless a division raised.
GenerateExecutiveSummary ==
    \E now \in Clock :
        LET text == generate_executive_summary(scan_results, scan_info, now)
            fails == \E i \in 1..Len(text.lines) : "error" \in DOMAIN text.lines[i].percentage
        IN  /\ op = "idle"
            /\ op' = "generate_executive_summary"
            /\ ret' = IF fails THEN <<>> ELSE text
            /\ raised' = IF fails THEN [type |-> "ZeroDivisionError"] ELSE NoError
            /\ UNCHANGED <<active_scans, scan_progress, time, observed, scan_results, scan_info, categorized_data, files, args>>

\* The caller takes the outcome of the call and is free to call again.
Return ==
    /\ op # "idle"
    /\ op' = "idle"
    /\ args' = <<>>
    /\ ret' = <<>>
    /\ raised' = NoError
    /\ UNCHANGED <<active_scans, scan_progress, time, observed, scan_results, scan_info, categorized_data, files>>

Next ==
    \/ GetExecutiveSummary
    \/ GetCriticalFindings
    \/ GetDomainIntelligence
    \/ GetTechnologyStack
    \/ GetNetworkIntelligence
    \/ GetContactInformation
    \/ GetSecurityFindings
    \/ GetTimelineData
    \/ GetModuleEfficiency
    \/ GenerateFullAnalysis
    \/ GenerateExecutiveSummary
    \/ Return

Spec == Init /\ [][Next]_vars

\* The same analyzer built from findings of the security and technology
\* labels.
InitLabels ==
    /\ scan_results \in BoundedSeq(SecurityFindings, MaxLabelLen)
                        \cup BoundedSeq(TechFindings, MaxLabelLen)
    /\ scan_info = FullScanInfo
    /\ categorized_data = _categorize_results(scan_results)
    /\ files = {}
    /\ op = "idle"
    /\ args = <<>>
    /\ ret = <<>>
    /\ raised = NoError
    /\ time = 0
    /\ observed = <<>>
    /\ active_scans = <<>>
    /\ scan_progress = <<>>

SpecLabels == InitLabels /\ [][Next]_vars

----------------------------------------------------------------------------
(* The report renderer and the web endpoint that calls it: the requests    *)
(* made for one scan, and the files they leave in the output directory.    *)

\* The findings of the rendered scans
RenderFindings ==
    {[type |-> "EMAILADDR", data |-> <<1>>, module |-> "sfp_email",
      timestamp |-> <<2>>],
     [type |-> "INTERNET_NAME", data |-> <<2>>]}

\* The output_filename a caller gives; <<>> is none
Filenames == {<<>>, <<"report">>}

\* The formats a caller asks for; "xml" is none of the supported ones
RequestFormats == {"html", "pdf", "json", "csv", "xml"}

InitRender ==
    /\ \/ /\ scan_results \in BoundedSeq(RenderFindings, MaxRenderLen)
          /\ scan_info = FullScanInfo
       \/ /\ scan_results = <<>>
          /\ scan_info \in ScanInfos
    /\ categorized_data = _categorize_results(scan_results)
    /\ files = {}
    /\ op = "idle"
    /\ args = <<>>
    /\ ret = <<>>
    /\ raised = NoError
    /\ time = 0
    /\ observed = <<>>
    /\ active_scans = <<>>
    /\ scan_progress = <<>>

\* A request starts while the directory has room for its files.
CanCall == op = "idle" /\ Cardinality(files) < MaxFiles

GenerateReport ==
    /\ CanCall
    /\ \E output_format \in {"html", "pdf", "xml"}, output_filename \in Filenames :
       \E env \in EnvsOf(scan_results, output_format) :
        LET call == generate_report(files, scan_results, scan_info,
                                    output_format, output_filename, env)
        IN  /\ op' = "generate_report"
            /\ args' = [output_format |-> output_format,
                        output_filename |-> output_filename,
                        pdf_ok |-> env.pdf_ok]
            /\ files' = call.files
            /\ ret' = call.ret
            /\ raised' = call.raised
            /\ UNCHANGED <<active_scans, scan_progress, time, observed, scan_results, scan_info, categorized_data>>

GenerateJsonExport ==
    /\ CanCall
    /\ \E output_filename \in Filenames \ {<<>>}, env \in EnvsOf(scan_results, "json") :
        /\ op' = "generate_json_export"
        /\ args' = [output_path |-> FilePath(output_filename, "json")]
        /\ files' = generate_json_export(files, scan_results, scan_info,
                        FilePath(output_filename, "json"), env.now, env.contacts)
        /\ ret' = <<>>
        /\ raised' = NoError
        /\ UNCHANGED <<active_scans, scan_progress, time, observed, scan_results, scan_info, categorized_data>>

\* The caller names a new CSV file or a file of the directory.
GenerateCsvExport ==
    /\ CanCall
    /\ \E output_path \in {FilePath(name, "csv") : name \in Filenames \ {<<>>}}
                          \cup {f.path : f \in files} :
        /\ op' = "generate_csv_export"
        /\ args' = [output_path |-> output_path]
        /\ files' = generate_csv_export(files, scan_results, output_path)
        /\ ret' = <<>>
        /\ raised' = NoError
        /\ UNCHANGED <<active_scans, scan_progress, time, observed, scan_results, scan_info, categorized_data>>

\* scan_info as the web endpoint prepares it from the remote scan summary
WebScanInfo(scan_id, scan_summary) ==
    [id      |-> scan_id,
     name    |-> Get(scan_summary, "name", Unknown),
     target  |-> Get(scan_summary, "target", Unknown),
     created |-> Get(scan_summary, "created", EmptyStr)]

\* custom_filename or f'scan_{scan_id}'
ExportStem(custom_filename, scan_id) ==
    IF custom_filename = <<>> THEN <<"scan_", scan_id>> ELSE custom_filename

\* The answer of the web endpoint: jsonify(...), status
ErrorResponse(status, error) == [status |-> status, error |-> error]

SuccessResponse(report_path) ==
    [status |-> 200, success |-> TRUE, report_path |-> report_path]

\* Faulty variant: the findings are not tested before the report is made.
api_generate_report_unchecked(fs, scan_id, output_format, custom_filename, remote_ok, remote_results, scan_summary, env) ==
    IF scan_id = "" THEN [files |-> fs, response |-> ErrorResponse(400, "Scan ID is required")]
    ELSE IF ~remote_ok THEN [files |-> fs, response |-> ErrorResponse(500, "HTTPError")]
    ELSE LET info == WebScanInfo(scan_id, scan_summary)
             path == FilePath(ExportStem(custom_filename, scan_id), output_format)
         IN  IF output_format \in {"html", "pdf"}
             THEN LET call == generate_report(fs, remote_results, info, output_format,
                                              custom_filename, env)
                  IN  [files    |-> call.files,
                       response |-> IF call.raised.type = "none"
                                    THEN SuccessResponse(call.ret)
                                    ELSE ErrorResponse(500, call.raised.type)]
             ELSE IF output_format = "json"
             THEN [files    |-> generate_json_export(fs, remote_results, info, path,
                                                     env.now, env.contacts),
                   response |-> SuccessResponse(path)]
             ELSE IF output_format = "csv"
             THEN [files    |-> generate_csv_export(fs, remote_results, path),
                   response |-> SuccessResponse(path)]
             ELSE [files |-> fs, response |-> ErrorResponse(400, "Invalid format")]

\* POST /api/report/generate: the files after the request and the answer.
\* No scan id is ""; remote_ok is whether the requests to the remote service
\* succeeded, remote_results and scan_summary what it answered.
api_generate_report(fs, scan_id, output_format, custom_filename, remote_ok, remote_results, scan_summary, env) ==
    IF scan_id = "" THEN [files |-> fs, response |-> ErrorResponse(400, "Scan ID is required")]
    ELSE IF ~remote_ok THEN [files |-> fs, response |-> ErrorResponse(500, "HTTPError")]
    ELSE IF remote_results = <<>>
    THEN [files |-> fs, response |-> ErrorResponse(404, "No results found for this scan")]
    ELSE LET info == WebScanInfo(scan_id, scan_summary)
             path == FilePath(ExportStem(custom_filename, scan_id), output_format)
         IN  IF output_format \in {"html", "pdf"}
             THEN LET call == generate_report(fs, remote_results, info, output_format,
                                              custom_filename, env)
                  IN  [files    |-> call.files,
                       response |-> IF call.raised.type = "none"
                                    THEN SuccessResponse(call.ret)
                                    ELSE ErrorResponse(500, call.raised.type)]
             ELSE IF output_format = "json"
             THEN [files    |-> generate_json_export(fs, remote_results, info, path,
                                                     env.now, env.contacts),
                   response |-> SuccessResponse(path)]
             ELSE IF output_format = "csv"
             THEN [files    |-> generate_csv_export(fs, remote_results, path),
                   response |-> SuccessResponse(path)]
             ELSE [files |-> fs, response |-> ErrorResponse(400, "Invalid format")]

\* The environment of a request: the lines that read the clock, the contact
\* order and WeasyPrint run only for a request that got its findings and
\* asked for a report or the JSON export.
RequestEnvs(results, scan_id, output_format, remote_ok) ==
    IF scan_id # "" /\ remote_ok /\ results # <<>> /\ output_format \in {"html", "pdf", "json"}
    THEN EnvsOf(results, output_format)
    ELSE {NoEnv(results)}

ApiGenerateReport ==
    /\ CanCall
    /\ \E scan_id \in {"", scan_info.id}, output_format \in RequestFormats,
          custom_filename \in Filenames, remote_ok \in BOOLEAN :
       \E env \in RequestEnvs(scan_results, scan_id, output_format, remote_ok) :
        LET request == api_generate_report(files, scan_id, output_format, custom_filename,
                           remote_ok, scan_results, scan_info, env)
        IN  /\ op' = "api_generate_report"
            /\ args' = [scan_id |-> scan_id, output_format |-> output_format,
                        custom_filename |-> custom_filename, pdf_ok |-> env.pdf_ok]
            /\ files' = request.files
            /\ ret' = request.response
            /\ raised' = NoError
            /\ UNCHANGED <<active_scans, scan_progress, time, observed, scan_results, scan_info, categorized_data>>

NextRender ==
    \/ CanCall /\ GenerateFullAnalysis
    \/ CanCall /\ GenerateExecutiveSummary
    \/ GenerateReport
    \/ GenerateJsonExport
    \/ GenerateCsvExport
    \/ ApiGenerateReport
    \/ Return

SpecRender == InitRender /\ [][NextRender]_vars

----------------------------------------------------------------------------
(* The web service under concurrent report requests: two handler threads   *)
(* of POST /api/report/generate, which share the output directory only.    *)
(* Here scan_info holds the summaries of the scans of the remote service   *)
(* by scan id, and op, args and ret hold one entry per handler.            *)

Handlers == {1, 2}

\* The scans of the remote service: two scans of two targets
RemoteScans ==
    [s1 |-> [name |-> <<"scan">>, target |-> <<"host", ":", "8080">>,
             created |-> <<2, 0, 2, 4, 84, 300>>],
     s2 |-> [name |-> <<"scan">>, target |-> <<"host", "/", "8080">>,
             created |-> <<2, 0, 2, 4, 84, 300>>]]

InitConcurrent ==
    /\ scan_results \in BoundedSeq(RenderFindings, 1) \ {<<>>}
    /\ scan_info = RemoteScans
    /\ categorized_data = _categorize_results(scan_results)
    /\ files = {}
    /\ op = [h \in Handlers |-> "idle"]
    /\ args = [h \in Handlers |-> <<>>]
    /\ ret = [h \in Handlers |-> <<>>]
    /\ raised = NoError
    /\ time = 0
    /\ observed = <<>>
    /\ active_scans = <<>>
    /\ scan_progress = <<>>

\* A request arrives: data = request.json
Receive(h) ==
    \E scan_id \in DOMAIN scan_info, output_format \in RequestFormats,
       custom_filename \in Filenames :
        /\ op[h] = "idle"
        /\ op' = [op EXCEPT ![h] = "received"]
        /\ args' = [args EXCEPT ![h] = [scan_id |-> scan_id,
                                        output_format |-> output_format,
                                        custom_filename |-> custom_filename]]
        /\ UNCHANGED <<active_scans, scan_progress, time, observed, scan_results, scan_info, categorized_data, files, ret, raised>>

\* The handler fetched the scan and reads the clock for its report; the
\* clock does not go back between two readings.
ReadClock(h) ==
    \E now \in Clock :
        /\ op[h] = "received"
        /\ \A g \in Handlers : op[g] \in {"named", "done"} => args[g].now <= now
        /\ op' = [op EXCEPT ![h] = "named"]
        /\ args' = [args EXCEPT ![h] = [scan_id |-> args[h].scan_id,
                                        output_format |-> args[h].output_format,
                                        custom_filename |-> args[h].custom_filename,
                                        now |-> now]]
        /\ UNCHANGED <<active_scans, scan_progress, time, observed, scan_results, scan_info, categorized_data, files, ret, raised>>

\* The handler writes its report and answers.
Respond(h) ==
    \E pdf_ok \in BOOLEAN, contacts \in ContactInformations(categorized_data) :
        LET request == api_generate_report(files, args[h].scan_id, args[h].output_format,
                           args[h].custom_filename, TRUE, scan_results,
                           scan_info[args[h].scan_id],
                           [now |-> args[h].now, contacts |-> contacts, pdf_ok |-> pdf_ok])
        IN  /\ op[h] = "named"
            /\ op' = [op EXCEPT ![h] = "done"]
            /\ files' = request.files
            /\ ret' = [ret EXCEPT ![h] = request.response]
            /\ UNCHANGED <<active_scans, scan_progress, time, observed, scan_results, scan_info, categorized_data, args, raised>>

NextConcurrent == \E h \in Handlers : Receive(h) \/ ReadClock(h) \/ Respond(h)

SpecConcurrent == InitConcurrent /\ [][NextConcurrent]_vars

----------------------------------------------------------------------------
(* SpiderFootClient.wait_for_scan: the polling loop of a scan.  op is the  *)
(* position of the loop, args its arguments and start_time, ret the value  *)
(* it returned ("None" before it has) and observed the answers it got,     *)
(* each with the times the request was sent and answered.                  *)

\* The scan statuses of the remote service; a status is a sequence of the
\* pieces the loop looks for and the rest of its text.
ScanStatuses ==
    {<<"RUNNING">>, <<"STARTING">>, <<"FINISHED">>, <<"ERROR", "-FAILED">>,
     <<"ABORTED">>, <<"ABORT", "-REQUESTED">>}

\* What response.json() may be: an empty list, a list that starts with an
\* empty dict, with a dict without status, or with a dict with a status.
StatusResponses ==
    {<<>>, <<[empty |-> TRUE]>>, <<[id |-> "s1"]>>}
        \cup {<<[id |-> "s1", status |-> status]>> : status \in ScanStatuses}

\* word in scan_status
Contains(scan_status, word) == \E i \in 1..Len(scan_status) : scan_status[i] = word

\* status[0].get('status', ''), when status and status[0]; '' otherwise
StatusOf(status) ==
    IF status # <<>> /\ "empty" \notin DOMAIN status[1]
    THEN Get(status[1], "status", EmptyStr) ELSE EmptyStr

\* Faulty variant: only FINISHED ends the loop.
ExamineFinishedOnly(status) ==
    IF Contains(StatusOf(status), "FINISHED") THEN "True" ELSE "sleep"

\* The body of the loop after the request: return True, return False or
\* sleep and go on.
Examine(status) ==
    IF Contains(StatusOf(status), "FINISHED") THEN "True"
    ELSE IF Contains(StatusOf(status), "ERROR") \/ Contains(StatusOf(status), "ABORTED")
    THEN "False"
    ELSE "sleep"

\* The caller has chosen the arguments of the call.
InitPoll ==
    /\ scan_results = <<>>
    /\ scan_info = [id |-> "s1"]
    /\ categorized_data = <<>>
    /\ files = {}
    /\ op = "idle"
    /\ \E timeout \in 0..MaxTimeout, poll_interval \in 1..MaxPollInterval :
           args = [scan_id |-> scan_info.id, timeout |-> timeout,
                   poll_interval |-> poll_interval, start_time |-> 0]
    /\ ret = "None"
    /\ raised = NoError
    /\ time = 0
    /\ observed = <<>>
    /\ active_scans = <<>>
    /\ scan_progress = <<>>

\* wait_for_scan(scan_id, timeout, poll_interval): start_time = time.time()
WaitForScan ==
    /\ op = "idle"
    /\ op' = "while"
    /\ args' = [args EXCEPT !.start_time = time]
    /\ UNCHANGED <<active_scans, scan_progress, time, observed, scan_results, scan_info, categorized_data,
                   files, ret, raised>>

\* while time.time() - start_time < timeout: ... return False
LoopTest ==
    /\ op = "while"
    /\ IF time - args.start_time < args.timeout
       THEN op' = "get_scan_status" /\ ret' = ret
       ELSE op' = "returned" /\ ret' = "False"
    /\ UNCHANGED <<active_scans, scan_progress, time, observed, scan_results, scan_info, categorized_data,
                   files, args, raised>>

\* status = self.get_scan_status(scan_id) and the if that follows: the
\* remote service answers after some time, with a status or with an HTTP
\* error, which raise_for_status raises.
GetScanStatus ==
    \E latency \in 0..MaxLatency, http_ok \in BOOLEAN, status \in StatusResponses :
        /\ op = "get_scan_status"
        /\ time' = time + latency
        /\ IF http_ok
           THEN /\ observed' = Append(observed, [status |-> status, sent |-> time,
                                                 answered |-> time + latency])
                /\ raised' = raised
                /\ op' = IF Examine(status) = "sleep" THEN "sleep" ELSE "returned"
                /\ ret' = IF Examine(status) = "sleep" THEN ret ELSE Examine(status)
           ELSE /\ observed' = observed
                /\ raised' = [type |-> "HTTPError"]
                /\ op' = "raised"
                /\ ret' = ret
        /\ UNCHANGED <<active_scans, scan_progress, scan_results, scan_info, categorized_data, files, args>>

\* time.sleep(poll_interval)
Sleep ==
    /\ op = "sleep"
    /\ time' = time + args.poll_interval
    /\ op' = "while"
    /\ UNCHANGED <<active_scans, scan_progress, observed, scan_results, scan_info, categorized_data, files,
                   args, ret, raised>>

NextPoll == WaitForScan \/ LoopTest \/ GetScanStatus \/ Sleep

\* The thread runs on, the remote service answers every request and every
\* sleep ends.
SpecPoll == InitPoll /\ [][NextPoll]_vars /\ WF_vars(NextPoll)

----------------------------------------------------------------------------
(* The scan registry of the web service: POST /api/scan/start and the      *)
(* monitor thread it starts for the scan.  Here op, args and ret hold one  *)
(* entry per request: the position of its handler and then of its monitor  *)
(* thread, the request and the answer ([status |-> 0] before it is given). *)
(* The clock is read up to MaxClock; later readings are not told apart.    *)

\* The target of a request; <<>> is none
Targets == {<<>>, <<"example.com">>}

\* result[0] of the remote service: an id of its own for each scan
ScanIdOf(h) == <<"s1", "s2">>[h]

\* if status and status[0]
IsTruthy(status) == status # <<>> /\ "empty" \notin DOMAIN status[1]

\* 'FINISHED' in scan_status or 'ERROR' in scan_status or 'ABORTED' in scan_status
IsComplete(scan_status) ==
    \/ Contains(scan_status, "FINISHED")
    \/ Contains(scan_status, "ERROR")
    \/ Contains(scan_status, "ABORTED")

\* Faulty variant: every scan that ended is recorded as completed.
FinalStatusCompleted(scan_status) == "completed"

\* 'completed' if 'FINISHED' in scan_status else 'failed'
FinalStatus(scan_status) ==
    IF Contains(scan_status, "FINISHED") THEN "completed" ELSE "failed"

InitMonitor ==
    /\ scan_results = <<>>
    /\ scan_info = <<>>
    /\ categorized_data = <<>>
    /\ files = {}
    /\ op = [h \in Handlers |-> "idle"]
    /\ args \in [Handlers -> {[target |-> target] : target \in Targets}]
    /\ ret = [h \in Handlers |-> [status |-> 0]]
    /\ raised = NoError
    /\ time = 0
    /\ observed = <<>>
    /\ active_scans = <<>>
    /\ scan_progress = <<>>

\* start_scan up to scan_id = client.start_scan(...): a request without
\* target is turned down, a failure of the remote service is answered with
\* 500, otherwise the remote service has started the scan.
StartScan(h) ==
    \E remote_ok \in BOOLEAN :
        /\ op[h] = "idle"
        /\ IF args[h].target = <<>>
           THEN /\ op' = [op EXCEPT ![h] = "answered"]
                /\ ret' = [ret EXCEPT ![h] = ErrorResponse(400, "Target is required")]
           ELSE IF ~remote_ok
           THEN /\ op' = [op EXCEPT ![h] = "answered"]
                /\ ret' = [ret EXCEPT ![h] = ErrorResponse(500, "HTTPError")]
           ELSE /\ op' = [op EXCEPT ![h] = "started"]
                /\ ret' = ret
        /\ UNCHANGED <<active_scans, scan_progress, time, observed, scan_results,
                       scan_info, categorized_data, files, args, raised>>

\* active_scans[scan_id] = {...}
RegisterScan(h) ==
    \E now \in time..MaxClock :
        /\ op[h] = "started"
        /\ time' = now
        /\ active_scans' = DictSet(active_scans, ScanIdOf(h),
                               [target     |-> args[h].target,
                                scan_name  |-> <<"Scan_">> \o args[h].target,
                                scan_type  |-> "all",
                                started_at |-> IsoFormat(now),
                                status     |-> "running"])
        /\ op' = [op EXCEPT ![h] = "registered"]
        /\ UNCHANGED <<scan_progress, observed, scan_results, scan_info,
                       categorized_data, files, args, ret, raised>>

\* thread.start() and the answer of the handler; from here on the entry of
\* op is the position of the monitor thread.
StartMonitor(h) ==
    /\ op[h] = "registered"
    /\ op' = [op EXCEPT ![h] = "get_scan_status"]
    /\ ret' = [ret EXCEPT ![h] = [status |-> 200, success |-> TRUE,
                                  scan_id |-> ScanIdOf(h)]]
    /\ UNCHANGED <<active_scans, scan_progress, time, observed, scan_results,
                   scan_info, categorized_data, files, args, raised>>

\* monitor_scan: status = client.get_scan_status(scan_id) and the update of
\* scan_progress.  A failing request raises, which ends the thread in its
\* except clause.
MonitorPoll(h) ==
    \E http_ok \in BOOLEAN, status \in StatusResponses, now \in time..MaxClock :
        /\ op[h] = "get_scan_status"
        /\ IF ~http_ok
           THEN /\ op' = [op EXCEPT ![h] = "raised"]
                /\ UNCHANGED <<scan_progress, time>>
           ELSE IF IsTruthy(status)
           THEN /\ time' = now
                /\ scan_progress' = DictSet(scan_progress, ScanIdOf(h),
                                        [status     |-> StatusOf(status),
                                         updated_at |-> IsoFormat(now)])
                /\ op' = [op EXCEPT ![h] = IF IsComplete(StatusOf(status))
                                           THEN "finish" ELSE "sleep"]
           ELSE /\ op' = [op EXCEPT ![h] = "sleep"]
                /\ UNCHANGED <<scan_progress, time>>
        /\ UNCHANGED <<active_scans, observed, scan_results, scan_info,
                       categorized_data, files, args, ret, raised>>

\* if scan_id in active_scans: active_scans[scan_id]['status'] = ...; break
MonitorFinish(h) ==
    /\ op[h] = "finish"
    /\ active_scans' =
           IF DictHas(active_scans, ScanIdOf(h))
           THEN DictSet(active_scans, ScanIdOf(h),
                    [DictGet(active_scans, ScanIdOf(h)) EXCEPT
                        !.status = FinalStatus(DictGet(scan_progress, ScanIdOf(h)).status)])
           ELSE active_scans
    /\ op' = [op EXCEPT ![h] = "done"]
    /\ UNCHANGED <<scan_progress, time, observed, scan_results, scan_info,
                   categorized_data, files, args, ret, raised>>

\* time.sleep(10)
MonitorSleep(h) ==
    /\ op[h] = "sleep"
    /\ op' = [op EXCEPT ![h] = "get_scan_status"]
    /\ UNCHANGED <<active_scans, scan_progress, time, observed, scan_results,
                   scan_info, categorized_data, files, args, ret, raised>>

\* A step of the handler of a request or of the monitor thread it started
ThreadStep(h) ==
    \/ StartScan(h)
    \/ RegisterScan(h)
    \/ StartMonitor(h)
    \/ MonitorPoll(h)
    \/ MonitorFinish(h)
    \/ MonitorSleep(h)

NextMonitor == \E h \in Handlers : ThreadStep(h)

\* Every thread runs on: the remote service answers every request, with a
\* status or an error, and every sleep ends.
SpecMonitor ==
    InitMonitor /\ [][NextMonitor]_vars /\ \A h \in Handlers : WF_vars(ThreadStep(h))

----------------------------------------------------------------------------
(* The command line: _generate_report_for_scan, run once for a scan of the *)
(* remote service.  Here scan_results and scan_info are what the remote    *)
(* service answers, op is the position in the function, args its           *)
(* arguments and the formats still to generate, and ret its                *)
(* generated_files and, once computed, the executive summary.              *)

\* The formats of the report command
CliFormats == {"html", "pdf", "both", "json", "csv"}

\* Faulty variant: the PDF is generated before the HTML report.
FormatsToGeneratePdfFirst(output_format) ==
    IF output_format = "both" THEN <<"pdf", "html">> ELSE <<output_format>>

\* ['html', 'pdf'] if output_format == 'both' else [output_format]
FormatsToGenerate(output_format) ==
    IF output_format = "both" THEN <<"html", "pdf">> ELSE <<output_format>>

InitCli ==
    /\ scan_results \in BoundedSeq(RenderFindings, MaxRenderLen)
    /\ scan_info \in {FullScanInfo, [id |-> "s1"]}
    /\ categorized_data = <<>>
    /\ files = {}
    /\ op = "idle"
    /\ args = <<>>
    /\ ret = <<>>
    /\ raised = NoError
    /\ time = 0
    /\ observed = <<>>
    /\ active_scans = <<>>
    /\ scan_progress = <<>>

\* The call, the two requests to the remote service and the test of the
\* findings: a failing request raises, an empty list ends the call.
CliRetrieve ==
    \E output_format \in CliFormats, custom_output \in Filenames, remote_ok \in BOOLEAN :
        /\ op = "idle"
        /\ args' = [scan_id |-> scan_info.id, output_format |-> output_format,
                    custom_output |-> custom_output,
                    formats_to_generate |-> FormatsToGenerate(output_format)]
        /\ ret' = [generated_files |-> <<>>]
        /\ IF ~remote_ok
           THEN op' = "raised" /\ raised' = [type |-> "HTTPError"]
           ELSE IF scan_results = <<>>
           THEN op' = "returned" /\ raised' = raised
           ELSE op' = "for" /\ raised' = raised
        /\ UNCHANGED <<active_scans, scan_progress, time, observed, scan_results,
                       scan_info, categorized_data, files>>

\* One turn of "for fmt in formats_to_generate": the report or the export
\* of the format, whose path is appended to generated_files; an error of
\* the generator ends the call.
CliGenerate ==
    /\ op = "for"
    /\ args.formats_to_generate # <<>>
    /\ LET fmt == Head(args.formats_to_generate)
           info == WebScanInfo(args.scan_id, scan_info)
           path == FilePath(ExportStem(args.custom_output, args.scan_id), fmt)
       IN  \E env \in EnvsOf(scan_results, fmt) :
               LET call == generate_report(files, scan_results, info, fmt,
                                           args.custom_output, env)
               IN  /\ env.now >= time
                   /\ time' = env.now
                   /\ args' = [args EXCEPT !.formats_to_generate = Tail(@)]
                   /\ IF fmt \in {"html", "pdf"}
                      THEN /\ files' = call.files
                           /\ raised' = call.raised
                           /\ IF call.raised.type = "none"
                              THEN /\ op' = op
                                   /\ ret' = [ret EXCEPT !.generated_files = Append(@, call.ret)]
                              ELSE /\ op' = "raised"
                                   /\ ret' = ret
                      ELSE /\ files' = IF fmt = "json"
                                       THEN generate_json_export(files, scan_results, info,
                                                path, env.now, env.contacts)
                                       ELSE generate_csv_export(files, scan_results, path)
                           /\ raised' = raised
                           /\ op' = op
                           /\ ret' = [ret EXCEPT !.generated_files = Append(@, path)]
    /\ UNCHANGED <<active_scans, scan_progress, observed, scan_results, scan_info,
                   categorized_data>>

\* After the loop: the executive summary is computed and printed, then the
\* generated files are listed.
CliSummary ==
    \E now \in time..MaxClock :
        LET text == generate_executive_summary(scan_results,
                        WebScanInfo(args.scan_id, scan_info), now)
            fails == \E i \in 1..Len(text.lines) : "error" \in DOMAIN text.lines[i].percentage
        IN  /\ op = "for"
            /\ args.formats_to_generate = <<>>
            /\ time' = now
            /\ op' = IF fails THEN "raised" ELSE "returned"
            /\ raised' = IF fails THEN [type |-> "ZeroDivisionError"] ELSE raised
            /\ ret' = IF fails THEN ret
                      ELSE [generated_files |-> ret.generated_files, exec_summary |-> text]
            /\ UNCHANGED <<active_scans, scan_progress, observed, scan_results,
                           scan_info, categorized_data, files, args>>

NextCli == CliRetrieve \/ CliGenerate \/ CliSummary

SpecCli == InitCli /\ [][NextCli]_vars

----------------------------------------------------------------------------
(* The properties *)

RECURSIVE SumOfCounts(_)
SumOfCounts(d) == IF d = <<>> THEN 0 ELSE d[1].v + SumOfCounts(Tail(d))

HasType(r) == "type" \in DOMAIN r

\* The indices of the findings filed under label, by the given labelling
WithLabel(label, verbatim) ==
    {i \in 1..Len(scan_results) :
        IF HasType(scan_results[i])
        THEN IF scan_results[i].type = "" /\ ~verbatim
             THEN label = "Unknown" ELSE label = scan_results[i].type
        ELSE label = "Unknown"}

\* The labels of the findings, by the given labelling
Labels(verbatim) ==
    {IF HasType(scan_results[i])
     THEN IF scan_results[i].type = "" /\ ~verbatim THEN "Unknown" ELSE scan_results[i].type
     ELSE "Unknown" : i \in 1..Len(scan_results)}

\* The i-th smallest element of a set of indices
Nth(S, n) == CHOOSE i \in S : Cardinality({j \in S : j < i}) = n - 1

\* C1: the counts of the executive summary add up to total_findings, and
\* unique_data_types is the number of keys of category_counts, for every
\* finding list.
C1_CountsAddUp ==
    op = "get_executive_summary" =>
        /\ SumOfCounts(ret.category_counts) = ret.total_findings
        /\ ret.total_findings = Len(scan_results)
        /\ ret.unique_data_types
               = Cardinality({ret.category_counts[i].k : i \in 1..Len(ret.category_counts)})

C1_Witness ==
    /\ op = "get_executive_summary"
    /\ \E i \in 1..Len(scan_results) : ~HasType(scan_results[i])
    /\ ret.total_findings >= 3
    /\ ret.unique_data_types >= 2

\* The index files every finding in exactly one bucket, the bucket of its
\* label, and keeps the input order within each bucket.
FiledByLabel(verbatim) ==
    /\ {categorized_data[b].k : b \in 1..Len(categorized_data)} = Labels(verbatim)
    /\ \A b, c \in 1..Len(categorized_data) :
           categorized_data[b].k = categorized_data[c].k => b = c
    /\ \A b \in 1..Len(categorized_data) :
           LET filed == WithLabel(categorized_data[b].k, verbatim)
               bucket == categorized_data[b].v
           IN  /\ Len(bucket) = Cardinality(filed)
               /\ \A n \in 1..Len(bucket) :
                      bucket[n] = SimplifiedRecord(scan_results[Nth(filed, n)])

\* C2, as stated: every finding is filed in exactly one bucket, keyed by its
\* type verbatim, a finding whose type is absent or the empty string under
\* "Unknown", in input order within each bucket.
C2_AsStated == FiledByLabel(FALSE)

\* C2, amended: every finding is filed in exactly one bucket, keyed by its
\* type verbatim (the empty string included), only a finding whose type is
\* absent under "Unknown", in input order within each bucket.
C2_FiledVerbatim == FiledByLabel(TRUE)

C2_Witness ==
    /\ \E i \in 1..Len(scan_results) : ~HasType(scan_results[i])
    /\ \E i \in 1..Len(scan_results) :
           HasType(scan_results[i]) /\ scan_results[i].type = ""
    /\ \E i \in 1..Len(scan_results) :
           HasType(scan_results[i]) /\ scan_results[i].type = "emailaddr"
    /\ DictHas(categorized_data, "") /\ DictHas(categorized_data, "Unknown")

\* The findings of a type, in input order
OfType(data_type) ==
    SelectSeq(scan_results, LAMBDA r : HasType(r) /\ r.type = data_type)

CriticalIndex(data_type) ==
    CHOOSE t \in 1..Len(critical_types) : critical_types[t] = data_type

\* C3: the critical findings hold, for each of the 12 critical types, the
\* first min(5, n) findings of that type in input order, tagged with the
\* type, the types in their priority order, and nothing else.
C3_CriticalFindings ==
    op = "get_critical_findings" =>
        /\ Len(critical_types) = 12
        /\ \A e \in 1..Len(ret) : ret[e].type \in Range(critical_types)
        /\ \A e, f \in 1..Len(ret) :
               e < f => CriticalIndex(ret[e].type) <= CriticalIndex(ret[f].type)
        /\ \A t \in 1..Len(critical_types) :
               LET tagged == SelectSeq(ret, LAMBDA e : e.type = critical_types[t])
                   found == OfType(critical_types[t])
               IN  /\ Len(tagged) <= 5
                   /\ Len(tagged) = Min(5, Len(found))
                   /\ \A n \in 1..Len(tagged) :
                          /\ tagged[n].data = Get(found[n], "data", EmptyStr)
                          /\ tagged[n].module = Get(found[n], "module", "")
                          /\ tagged[n].confidence = Get(found[n], "confidence", 100)

C3_Witness ==
    /\ op = "get_critical_findings"
    /\ Len(OfType("EMAILADDR")) = 6
    /\ OfType("EMAILADDR")[5] # OfType("EMAILADDR")[6]
    /\ Len(ret) = 5
    /\ ret[5].data = OfType("EMAILADDR")[5].data

\* A present, non-empty timestamp
NonEmptyTimestamp(r) == "timestamp" \in DOMAIN r /\ Len(r.timestamp) > 0

\* C4: the timeline is non-decreasing by timestamp string, holds one entry
\* for every finding with a non-empty timestamp, and keeps the input order
\* of the entries with equal timestamps.
C4_Timeline ==
    op = "get_timeline_data" =>
        /\ \A e \in 1..(Len(ret) - 1) : ~StrLess(ret[e + 1].timestamp, ret[e].timestamp)
        /\ Len(ret) = Cardinality({i \in 1..Len(scan_results) :
                                      NonEmptyTimestamp(scan_results[i])})
        /\ \A e \in 1..Len(ret) :
               LET same == SelectSeq(ret, LAMBDA x : x.timestamp = ret[e].timestamp)
                   from == SelectSeq(scan_results,
                               LAMBDA r : NonEmptyTimestamp(r) /\ r.timestamp = ret[e].timestamp)
               IN  /\ Len(same) = Len(from)
                   /\ \A n \in 1..Len(same) :
                          /\ same[n].type = Get(from[n], "type", "Unknown")
                          /\ same[n].data = Get(from[n], "data", EmptyStr)
                          /\ same[n].module = Get(from[n], "module", "")

C4_Witness ==
    /\ op = "get_timeline_data"
    /\ Len(ret) = 3
    /\ scan_results[3].timestamp = <<1, 0>>
    /\ ret[1].timestamp = <<1, 0>>
    /\ ret[2].timestamp = ret[3].timestamp
    /\ ret[2] # ret[3]

\* The data of the findings of a type
DataOfType(data_type) ==
    {Get(OfType(data_type)[n], "data", EmptyStr) : n \in 1..Len(OfType(data_type))}

\* C5: the four contact buckets are all present, hold no value twice and
\* hold exactly the data of the findings of their raw type.
C5_Contacts ==
    op = "get_contact_information" =>
        /\ DOMAIN ret = {"emails", "phone_numbers", "physical_addresses", "social_profiles"}
        /\ \A key \in DOMAIN ret : Len(ret[key]) = Cardinality(Range(ret[key]))
        /\ Range(ret.emails) = DataOfType("EMAILADDR")
        /\ Range(ret.phone_numbers) = DataOfType("PHONE_NUMBER")
        /\ Range(ret.physical_addresses) = DataOfType("PHYSICAL_ADDRESS")
        /\ Range(ret.social_profiles) = DataOfType("SOCIAL_MEDIA")

C5_Witness ==
    /\ op = "get_contact_information"
    /\ Len(OfType("EMAILADDR")) = 3
    /\ Len(ret.emails) = 2
    /\ ret.phone_numbers = <<>>

\* The module a finding is counted for
CountedModule(r) == IF "module" \in DOMAIN r THEN r.module ELSE "Unknown"

CountedFor(module) ==
    {i \in 1..Len(scan_results) : CountedModule(scan_results[i]) = module}

FirstCounted(module) == CHOOSE i \in CountedFor(module) : \A j \in CountedFor(module) : i <= j

RECURSIVE SumOfFindings(_)
SumOfFindings(e) == IF e = <<>> THEN 0 ELSE e[1].findings + SumOfFindings(Tail(e))

\* C6: the module efficiency has one entry per module, with the number of
\* findings of the module, in descending order of that number, the modules
\* with equal numbers in the order they were first met; the numbers add up
\* to the number of findings.
C6_ModuleEfficiency ==
    op = "get_module_efficiency" =>
        /\ {ret[e].module : e \in 1..Len(ret)}
               = {CountedModule(scan_results[i]) : i \in 1..Len(scan_results)}
        /\ \A e, f \in 1..Len(ret) : ret[e].module = ret[f].module => e = f
        /\ \A e \in 1..Len(ret) : ret[e].findings = Cardinality(CountedFor(ret[e].module))
        /\ \A e \in 1..(Len(ret) - 1) :
               \/ ret[e].findings > ret[e + 1].findings
               \/ /\ ret[e].findings = ret[e + 1].findings
                  /\ FirstCounted(ret[e].module) < FirstCounted(ret[e + 1].module)
        /\ SumOfFindings(ret) = Len(scan_results)

C6_Witness ==
    /\ op = "get_module_efficiency"
    /\ Len(ret) = 3
    /\ ret[1].findings > ret[2].findings
    /\ ret[2].findings = ret[3].findings
    /\ FirstCounted(ret[1].module) > FirstCounted(ret[3].module)

\* C7: when the PDF conversion fails, generate_report leaves the rendered
\* report in an HTML file of the same stem, raises an error that carries
\* that path, and returns no path.
C7_PdfFallback ==
    (op = "generate_report" /\ args.output_format = "pdf" /\ ~args.pdf_ok) =>
        /\ raised.type = "RuntimeError"
        /\ raised.html_path.suffix = "html"
        /\ args.output_filename # <<>> => raised.html_path.stem = args.output_filename
        /\ args.output_filename = <<>> => raised.html_path.stem[1] = "osint_report_"
        /\ FileExists(files, raised.html_path)
        /\ ReadFile(files, raised.html_path).kind = "text"
        /\ ReadFile(files, raised.html_path).payload.template = "report_template.html"
        /\ ReadFile(files, raised.html_path).payload.context.summary.total_findings
               = Len(scan_results)
        /\ "stem" \notin DOMAIN ret

C7_Witness ==
    /\ op = "generate_report"
    /\ args.output_format = "pdf"
    /\ ~args.pdf_ok
    /\ args.output_filename = <<"report">>
    /\ scan_results # <<>>
    /\ raised.type = "RuntimeError"
    /\ FileExists(files, FilePath(<<"report">>, "html"))
    /\ ~FileExists(files, FilePath(<<"report">>, "pdf"))

SupportedFormats == {"html", "pdf", "json", "csv"}

\* C8: a report request for a format outside {html, pdf, json, csv} is
\* answered with an error and changes no file of the output directory.
C8_UnsupportedFormat ==
    [][(/\ op = "idle"
        /\ op' \in {"generate_report", "api_generate_report"}
        /\ args'.output_format \notin SupportedFormats)
       => /\ files' = files
          /\ op' = "generate_report" => raised'.type = "ValueError"
          /\ op' = "api_generate_report" =>
                 "error" \in DOMAIN ret' /\ ret'.status \in {400, 404, 500}]_vars

C8_Witness ==
    /\ op = "generate_report"
    /\ args.output_format = "xml"
    /\ raised.type = "ValueError"
    /\ scan_results # <<>>
    /\ files # {}

\* Every view of an analysis is empty or zero.
AllEmpty(analysis) ==
    /\ analysis.executive_summary.total_findings = 0
    /\ analysis.executive_summary.unique_data_types = 0
    /\ analysis.executive_summary.category_counts = <<>>
    /\ analysis.executive_summary.top_categories = <<>>
    /\ analysis.executive_summary.module_stats = <<>>
    /\ analysis.critical_findings = <<>>
    /\ analysis.timeline = <<>>
    /\ analysis.module_efficiency = <<>>
    /\ analysis.technology_stack = <<>>
    /\ analysis.categorized_data = <<>>
    /\ \A key \in DOMAIN analysis.network_intelligence :
           analysis.network_intelligence[key] = <<>>
    /\ \A key \in DOMAIN analysis.contact_information :
           analysis.contact_information[key] = <<>>
    /\ \A key \in DOMAIN analysis.security_findings :
           analysis.security_findings[key] = <<>>
    /\ analysis.domain_intelligence.domains = <<>>
    /\ analysis.domain_intelligence.subdomains = <<>>
    /\ analysis.domain_intelligence.ip_addresses = <<>>
    /\ analysis.domain_intelligence.total_domains = 0
    /\ analysis.domain_intelligence.total_subdomains = 0
    /\ analysis.domain_intelligence.total_ips = 0

\* C9: for the empty finding list generate_full_analysis raises nothing and
\* every view is empty or zero, and generate_json_export still writes a file
\* that holds these views.
C9_EmptyInput ==
    /\ (op = "generate_full_analysis" /\ scan_results = <<>>) =>
           raised.type = "none" /\ AllEmpty(ret)
    /\ (op = "generate_json_export" /\ scan_results = <<>>) =>
           /\ raised.type = "none"
           /\ FileExists(files, args.output_path)
           /\ ReadFile(files, args.output_path).kind = "json"
           /\ AllEmpty(ReadFile(files, args.output_path).payload)

C9_Witness ==
    /\ op = "generate_json_export"
    /\ scan_results = <<>>
    /\ FileExists(files, args.output_path)
    /\ ReadFile(files, args.output_path).payload.executive_summary.total_findings = 0

\* C10: generate_executive_summary never divides by zero: a percentage is
\* computed only when total_findings > 0, and when it is 0 no percentage is
\* computed and the text is returned.
C10_NoDivisionByZero ==
    op = "generate_executive_summary" =>
        /\ raised.type = "none"
        /\ "lines" \in DOMAIN ret
        /\ ret.total_findings = Len(scan_results)
        /\ ret.total_findings = 0 => ret.lines = <<>>
        /\ \A i \in 1..Len(ret.lines) :
               /\ ret.total_findings > 0
               /\ "tenths" \in DOMAIN ret.lines[i].percentage

C10_Witness ==
    /\ op = "generate_executive_summary"
    /\ scan_results = <<>>
    /\ raised.type = "none"
    /\ ret.total_findings = 0
    /\ ret.lines = <<>>

\* The first characters of the keys of a finding, as code points: the order
\* sorted() gives strs is the lexicographic order of their code points.
KeyChars ==
    [confidence |-> <<99, 111>>, data |-> <<100, 97>>, module |-> <<109, 111>>,
     source |-> <<115, 111>>, timestamp |-> <<116, 105>>, type |-> <<116, 121>>]

\* C11: the CSV export of a non-empty finding list writes a header that is
\* the alphabetically sorted union of the keys of the records, and one row
\* per record in input order, with an empty cell where the record has no
\* such key; the export of the empty list leaves every file as it was.
C11_CsvExport ==
    [][op' = "generate_csv_export" =>
          IF scan_results = <<>>
          THEN files' = files
          ELSE /\ FileExists(files', args'.output_path)
               /\ \A f \in files : f.path # args'.output_path => f \in files'
               /\ LET csv == ReadFile(files', args'.output_path).payload
                  IN  /\ Range(csv.header)
                             = UNION {DOMAIN scan_results[i] : i \in 1..Len(scan_results)}
                      /\ \A c, d \in 1..Len(csv.header) :
                             c < d => StrLess(KeyChars[csv.header[c]], KeyChars[csv.header[d]])
                      /\ Len(csv.rows) = Len(scan_results)
                      /\ \A i \in 1..Len(csv.rows) :
                             /\ Len(csv.rows[i]) = Len(csv.header)
                             /\ \A c \in 1..Len(csv.header) :
                                    IF csv.header[c] \in DOMAIN scan_results[i]
                                    THEN csv.rows[i][c]
                                             = [cell |-> scan_results[i][csv.header[c]]]
                                    ELSE csv.rows[i][c] = [empty |-> TRUE]]_vars

C11_Witness ==
    /\ op = "generate_csv_export"
    /\ Len(scan_results) = 2
    /\ "module" \notin DOMAIN scan_results[1]
    /\ "module" \in DOMAIN scan_results[2]
    /\ FileExists(files, args.output_path)
    /\ ReadFile(files, args.output_path).payload.header
           = <<"data", "module", "timestamp", "type">>
    /\ ReadFile(files, args.output_path).payload.rows[1][2] = [empty |-> TRUE]

\* An export of the empty finding list to a path where a file is.
C11_EmptyOverExisting ==
    /\ op = "generate_csv_export"
    /\ scan_results = <<>>
    /\ FileExists(files, args.output_path)

\* The keys of the analysis bundle
BundleKeys ==
    {"executive_summary", "critical_findings", "domain_intelligence",
     "technology_stack", "network_intelligence", "contact_information",
     "security_findings", "timeline", "module_efficiency", "categorized_data"}

\* The findings filed under a type label by the categorization
FiledUnder(label) ==
    {i \in 1..Len(scan_results) :
        (IF HasType(scan_results[i]) THEN scan_results[i].type ELSE "Unknown") = label}

C13_InputsNotMutated ==
    [][/\ scan_results' = scan_results
       /\ \A i \in 1..Len(scan_results) : scan_results'[i] = scan_results[i]
       /\ scan_info' = scan_info
       /\ categorized_data' = categorized_data
       /\ categorized_data' = _categorize_results(scan_results')]_vars

C13_Witness ==
    /\ op = "generate_full_analysis"
    /\ files # {}
    /\ Len(scan_results) = 2
    /\ \E i \in 1..Len(scan_results) : ~HasTimestamp(scan_results[i])
    /\ ret.categorized_data = categorized_data
    /\ Len(ret.timeline) = 1

\* The bundle of another analysis of the same finding list and scan
\* metadata, made at another time by another process.
OtherAnalysis(now, contacts) ==
    generate_full_analysis(scan_results, scan_info, _categorize_results(scan_results),
                           now, contacts)

IsUnknown(str) == Len(str) = 1 /\ str[1] = "Unknown"

\* C15, as stated: scan_target, scan_name and scan_date of the executive
\* summary are the target, name and created fields of the scan metadata,
\* and "Unknown" where the field is absent.
C15_AsStated ==
    op = "get_executive_summary" =>
        /\ ret.scan_target = Get(scan_info, "target", Unknown)
        /\ ret.scan_name = Get(scan_info, "name", Unknown)
        /\ IF "created" \in DOMAIN scan_info
           THEN ret.scan_date = scan_info.created
           ELSE IsUnknown(ret.scan_date)

\* C15, amended: scan_target and scan_name are the target and name fields,
\* and "Unknown" where the field is absent; scan_date is the created field,
\* and the current time in ISO format where it is absent.
C15_ScanInfoDefaults ==
    op = "get_executive_summary" =>
        /\ ret.scan_target = Get(scan_info, "target", Unknown)
        /\ ret.scan_name = Get(scan_info, "name", Unknown)
        /\ "target" \notin DOMAIN scan_info => IsUnknown(ret.scan_target)
        /\ "name" \notin DOMAIN scan_info => IsUnknown(ret.scan_name)
        /\ IF "created" \in DOMAIN scan_info
           THEN ret.scan_date = scan_info.created
           ELSE \E now \in Clock : ret.scan_date = IsoFormat(now)

C15_Witness ==
    /\ op = "get_executive_summary"
    /\ DOMAIN scan_info = {"id"}
    /\ IsUnknown(ret.scan_target)
    /\ IsUnknown(ret.scan_name)
    /\ ret.scan_date = IsoFormat(1)

\* The first finding filed under a label
FirstFiled(label) == CHOOSE i \in FiledUnder(label) : \A j \in FiledUnder(label) : i <= j

\* The type labels and the modules of the finding list
TypeLabels ==
    {IF HasType(scan_results[i]) THEN scan_results[i].type ELSE "Unknown" :
        i \in 1..Len(scan_results)}

Modules == {CountedModule(scan_results[i]) : i \in 1..Len(scan_results)}

\* top holds the first min(10, number of names) of the names, ordered by
\* descending count, the names of equal count by their first finding.
IsTopTen(top, names, count, first) ==
    /\ Len(top) = Min(10, Cardinality(names))
    /\ \A e \in 1..Len(top) : top[e].k \in names /\ top[e].v = count[top[e].k]
    /\ \A e \in 1..(Len(top) - 1) :
           \/ top[e].v > top[e + 1].v
           \/ top[e].v = top[e + 1].v /\ first[top[e].k] < first[top[e + 1].k]
    /\ \A name \in names \ {top[e].k : e \in 1..Len(top)} :
           \/ count[name] < top[Len(top)].v
           \/ count[name] = top[Len(top)].v /\ first[top[Len(top)].k] < first[name]

\* C16: top_categories holds the first min(10, number of types) types by
\* descending count, module_stats the min(10, number of modules) modules
\* with the highest counts, ties in first-encountered order in both, and
\* every module of module_stats has the count module_efficiency reports.
C16_TopN ==
    op = "get_executive_summary" =>
        /\ IsTopTen(ret.top_categories, TypeLabels,
                    [label \in TypeLabels |-> Cardinality(FiledUnder(label))],
                    [label \in TypeLabels |-> FirstFiled(label)])
        /\ IsTopTen(ret.module_stats, Modules,
                    [module \in Modules |-> Cardinality(CountedFor(module))],
                    [module \in Modules |-> FirstCounted(module)])
        /\ LET efficiency == get_module_efficiency(scan_results)
           IN  \A e \in 1..Len(ret.module_stats) :
                   /\ efficiency[e].module = ret.module_stats[e].k
                   /\ efficiency[e].findings = ret.module_stats[e].v

C16_Witness ==
    /\ op = "get_executive_summary"
    /\ ret.unique_data_types = 11
    /\ Len(ret.top_categories) = 10
    /\ Len(ret.module_stats) = 10
    /\ ret.top_categories[1].v = 2
    /\ FirstFiled(ret.top_categories[1].k) = 11
    /\ ret.top_categories[2].v = 1
    /\ FirstFiled(ret.top_categories[10].k) = 9

\* The reading a created value stands for: a str that holds a "T" and is an
\* ISO-8601 date once a "Z" is read as UTC.  No reading is -1.
IsoReading(created) ==
    IF /\ \A i \in 1..Len(created) : created[i] >= 0
       /\ \E i \in 1..Len(created) : created[i] = 84
       /\ Len(created) \in {6, 7}
       /\ created[5] = 84
       /\ Len(created) = 7 => created[7] \in {90, 43}
    THEN created[6] ELSE -1

\* C17: building the report context raises nothing whatever the created
\* field is; the scan date of the report is the date the field stands for
\* when it is a str with a "T" that parses as ISO-8601, a trailing "Z"
\* accepted, and the current time in every other case.
C17_DateParsing ==
    op = "generate_report" =>
        /\ raised.type \in {"none", "RuntimeError", "ValueError"}
        /\ raised.type = "ValueError" => args.output_format \notin {"html", "pdf"}
        /\ raised.type = "RuntimeError" => ~args.pdf_ok
        /\ args.output_format = "html" =>
               /\ raised.type = "none"
               /\ LET context == ReadFile(files, ret).payload.context
                  IN  IF "created" \in DOMAIN scan_info /\ IsoReading(scan_info.created) >= 0
                      THEN context.scan_date
                               = ToString(IsoReading(scan_info.created) \div TicksPerMinute)
                      ELSE context.scan_date = context.report_date

C17_Witness ==
    /\ op = "generate_report"
    /\ args.output_format = "html"
    /\ "created" \in DOMAIN scan_info
    /\ scan_info.created = PyNone
    /\ raised.type = "none"
    /\ ReadFile(files, ret).payload.context.scan_date
           = ReadFile(files, ret).payload.context.report_date

C17_WitnessParsed ==
    /\ op = "generate_report"
    /\ args.output_format = "html"
    /\ "created" \in DOMAIN scan_info
    /\ scan_info.created = <<2, 0, 2, 4, 84, 300, 90>>
    /\ ReadFile(files, ret).payload.context.scan_date
           # ReadFile(files, ret).payload.context.report_date

\* The handler answered with the path of the report it wrote.
Succeeded(h) == op[h] = "done" /\ "report_path" \in DOMAIN ret[h]

\* C18: two report requests that both give no output stem are answered with
\* distinct paths, so that neither writes the file of the other.
C18_DistinctDefaultPaths ==
    \A g, h \in Handlers :
        (/\ g # h
         /\ Succeeded(g) /\ Succeeded(h)
         /\ args[g].custom_filename = <<>>
         /\ args[h].custom_filename = <<>>)
        => ret[g].report_path # ret[h].report_path

\* The answer holds a status with the word in it.
Says(answer, word) ==
    /\ answer.status # <<>>
    /\ "status" \in DOMAIN answer.status[1]
    /\ \E i \in 1..Len(answer.status[1].status) : answer.status[1].status[i] = word

IsTerminal(answer) ==
    Says(answer, "FINISHED") \/ Says(answer, "ERROR") \/ Says(answer, "ABORTED")

LastObserved == observed[Len(observed)]

\* No request is made after a terminal status or after the timeout has
\* elapsed, a terminal status ends the call at once, True is returned only
\* for FINISHED seen in a poll made before the timeout, and False only for
\* ERROR or ABORTED or when the timeout has elapsed.
WaitForScanStops ==
    /\ \A i \in 1..(Len(observed) - 1) : ~IsTerminal(observed[i])
    /\ \A i \in 1..Len(observed) : observed[i].sent - args.start_time < args.timeout
    /\ (Len(observed) > 0 /\ IsTerminal(LastObserved)) =>
           op = "returned" /\ (ret = "True") = Says(LastObserved, "FINISHED")
    /\ op = "returned" =>
           /\ ret \in {"True", "False"}
           /\ ret = "True" =>
                  /\ Len(observed) > 0
                  /\ Says(LastObserved, "FINISHED")
                  /\ LastObserved.sent - args.start_time < args.timeout
           /\ ret = "False" =>
                  \/ /\ Len(observed) > 0
                     /\ Says(LastObserved, "ERROR") \/ Says(LastObserved, "ABORTED")
                  \/ time - args.start_time >= args.timeout

C19_WitnessTimeout ==
    /\ op = "returned"
    /\ ret = "False"
    /\ Len(observed) = 2
    /\ ~IsTerminal(LastObserved)

\* list is the alphabetically sorted list of the distinct values of S.
IsSortedListOf(list, S) ==
    /\ Range(list) = S
    /\ \A e \in 1..(Len(list) - 1) : StrLess(list[e], list[e + 1])

\* C20: domains, subdomains and ip_addresses are the distinct data of the
\* findings of type INTERNET_NAME, AFFILIATE_INTERNET_NAME and IP_ADDRESS,
\* each sorted alphabetically, without duplicates, and the totals are the
\* lengths of these lists.
C20_DomainIntelligence ==
    op = "get_domain_intelligence" =>
        /\ IsSortedListOf(ret.domains, DataOfType("INTERNET_NAME"))
        /\ IsSortedListOf(ret.subdomains, DataOfType("AFFILIATE_INTERNET_NAME"))
        /\ IsSortedListOf(ret.ip_addresses, DataOfType("IP_ADDRESS"))
        /\ ret.total_domains = Len(ret.domains)
        /\ ret.total_subdomains = Len(ret.subdomains)
        /\ ret.total_ips = Len(ret.ip_addresses)

\* The scenario of two findings: a domain and an address
C20_Witness ==
    /\ op = "get_domain_intelligence"
    /\ Len(scan_results) = 2
    /\ OfType("INTERNET_NAME") = <<scan_results[1]>>
    /\ OfType("IP_ADDRESS") = <<scan_results[2]>>
    /\ ret.domains = <<<<2>>>>
    /\ ret.total_domains = 1
    /\ ret.total_ips = 1

\* Three domain findings, two of them equal, the smaller name found last
C20_WitnessSorted ==
    /\ op = "get_domain_intelligence"
    /\ Len(scan_results) = 3
    /\ ret.domains = <<<<1, 0>>, <<2>>>>
    /\ Len(OfType("INTERNET_NAME")) = 3
    /\ OfType("INTERNET_NAME")[3] = [type |-> "INTERNET_NAME", data |-> <<1, 0>>]

\* The bucket of each security label
SecurityBucketOf ==
    [VULNERABILITY            |-> "vulnerabilities",
     MALICIOUS_IPADDR         |-> "malicious_indicators",
     MALICIOUS_INTERNET_NAME  |-> "malicious_indicators",
     LEAKED_DATA              |-> "leaked_data",
     SSL_CERTIFICATE_MISMATCH |-> "ssl_issues",
     SSL_CERTIFICATE_EXPIRED  |-> "ssl_issues"]

SecurityBuckets == {"vulnerabilities", "malicious_indicators", "leaked_data", "ssl_issues"}

\* The entry that stands for a finding of a security label
SecurityEntry(r) ==
    [type   |-> r.type,
     data   |-> Get(r, "data", EmptyStr),
     module |-> Get(r, "module", ""),
     source |-> Get(r, "source", "")]

Occurrences(seq, e) == Cardinality({i \in 1..Len(seq) : seq[i] = e})

\* C21: the security findings hold the four buckets and no other; a bucket
\* holds entries of its own labels only, so a finding of any other type is in
\* no bucket; and each finding of a security label has its entry, tagged
\* with its label, in the bucket of the label as often as the finding occurs
\* in the list (once for a finding that occurs once) and in no other bucket.
C21_SecurityFindings ==
    op = "get_security_findings" =>
        /\ DOMAIN ret = SecurityBuckets
        /\ \A b \in SecurityBuckets : \A i \in 1..Len(ret[b]) :
               /\ ret[b][i].type \in DOMAIN SecurityBucketOf
               /\ SecurityBucketOf[ret[b][i].type] = b
        /\ \A T \in DOMAIN SecurityBucketOf : \A i \in 1..Len(OfType(T)) :
               LET entry == SecurityEntry(OfType(T)[i])
                   times == Cardinality({j \in 1..Len(OfType(T)) :
                                SecurityEntry(OfType(T)[j]) = entry})
               IN  \A b \in SecurityBuckets :
                       Occurrences(ret[b], entry)
                           = IF b = SecurityBucketOf[T] THEN times ELSE 0

\* Three findings: a malicious name, a malicious address and a malicious
\* subnet; the two first share a bucket, the subnet is in none.
C21_Witness ==
    /\ op = "get_security_findings"
    /\ Len(scan_results) = 3
    /\ Len(OfType("MALICIOUS_INTERNET_NAME")) = 1
    /\ Len(OfType("MALICIOUS_IPADDR")) = 1
    /\ Len(OfType("MALICIOUS_SUBNET")) = 1
    /\ Len(ret.malicious_indicators) = 2
    /\ ret.vulnerabilities = <<>>

\* The label of each technology type
TechLabelOf ==
    [WEBSERVER_TECHNOLOGY |-> "Web Servers",
     WEBSERVER_BANNER     |-> "Server Banners",
     SOFTWARE_USED        |-> "Software",
     OPERATING_SYSTEM     |-> "Operating Systems"]

\* The values the returned stack gives a label; none for a label it lacks
TechValues(label) == IF DictHas(ret, label) THEN DictGet(ret, label) ELSE <<>>

\* C22: the technology stack gives each of the four labels the data values
\* of the findings of its raw type, sorted alphabetically and without
\* duplicates; a label whose raw type has no findings has no values (the
\* stack has no entry for it), no label occurs twice and no other label
\* occurs.
C22_TechnologyStack ==
    op = "get_technology_stack" =>
        /\ \A e \in 1..Len(ret) : \E T \in DOMAIN TechLabelOf : ret[e].k = TechLabelOf[T]
        /\ \A e, f \in 1..Len(ret) : ret[e].k = ret[f].k => e = f
        /\ \A T \in DOMAIN TechLabelOf :
               /\ IsSortedListOf(TechValues(TechLabelOf[T]), DataOfType(T))
               /\ DictHas(ret, TechLabelOf[T]) <=> OfType(T) # <<>>

\* Three web server findings, two of them equal, and a finding of a type
\* the stack does not name: one label with two sorted values.
C22_Witness ==
    /\ op = "get_technology_stack"
    /\ Len(scan_results) = 3
    /\ Len(OfType("WEBSERVER_TECHNOLOGY")) = 2
    /\ Len(OfType("WEBSERVER_HTTPHEADERS")) = 1
    /\ OfType("WEBSERVER_TECHNOLOGY")[1].data = <<2>>
    /\ ret = <<[k |-> "Web Servers", v |-> <<<<1, 0>>, <<2>>>>]>>

\* The findings a view attributes to a module when an absent module counts
\* as the empty string
AttributedTo(module) ==
    {i \in 1..Len(scan_results) : Get(scan_results[i], "module", "") = module}

\* C23: a finding without module is attributed to the empty-string module in
\* the categorized index, the timeline, module_stats and module_efficiency;
\* in the categorized index a finding without source has the empty string and
\* a finding without confidence has 100.
C23_AbsentFieldDefaults ==
    /\ \A c \in 1..Len(categorized_data) :
           LET items == categorized_data[c].v
               from == SelectSeq(scan_results,
                           LAMBDA r : Get(r, "type", "Unknown") = categorized_data[c].k)
           IN  /\ Len(items) = Len(from)
               /\ \A n \in 1..Len(items) :
                      /\ items[n].module = Get(from[n], "module", "")
                      /\ items[n].source = Get(from[n], "source", "")
                      /\ items[n].confidence = Get(from[n], "confidence", 100)
    /\ op = "get_timeline_data" =>
           \A e \in 1..Len(ret) :
               Cardinality({f \in 1..Len(ret) : ret[f].module = ret[e].module})
                   = Cardinality({i \in AttributedTo(ret[e].module) :
                                     NonEmptyTimestamp(scan_results[i])})
    /\ op = "get_executive_summary" =>
           \A e \in 1..Len(ret.module_stats) :
               ret.module_stats[e].v = Cardinality(AttributedTo(ret.module_stats[e].k))
    /\ op = "get_module_efficiency" =>
           \A e \in 1..Len(ret) :
               ret[e].findings = Cardinality(AttributedTo(ret[e].module))

\* The registry entry of the scan of request h
Registered(h) == DictHas(active_scans, ScanIdOf(h))

StatusInRegistry(h) == DictGet(active_scans, ScanIdOf(h)).status

\* C24: for every scan started through the web service, the monitor thread
\* eventually stops polling and the status of the registry entry of the
\* scan eventually is no longer running.
C24_MonitorStops ==
    \A h \in Handlers :
        Registered(h) ~> (op[h] \in {"done", "raised"} /\ StatusInRegistry(h) # "running")

\* The status the monitor of the scan of request h has seen last
SeenStatus(h) == DictGet(scan_progress, ScanIdOf(h)).status

\* The step in which the monitor of the scan of request h acts on the
\* terminal status it has seen, and no other thread moves
MonitorActs(h) ==
    /\ op[h] = "finish"
    /\ op'[h] = "done"
    /\ \A g \in Handlers \ {h} : op'[g] = op[g]

\* C25: the status of a registry entry is running, completed or failed; an
\* entry is made with the status running, by the handler that started the
\* scan, and stays in the registry; its status changes only in a step of
\* the monitor of its own scan, only from running, to completed when the
\* status the monitor saw contains FINISHED and to failed when it contains
\* ERROR or ABORTED and not FINISHED; and the monitor that saw such a
\* status makes that change.
C25_RegistryTransitions ==
    /\ [](\A h \in Handlers :
             Registered(h) => StatusInRegistry(h) \in {"running", "completed", "failed"})
    /\ [][\A h \in Handlers :
             /\ Registered(h) => Registered(h)'
             /\ (~Registered(h) /\ Registered(h)') =>
                    /\ StatusInRegistry(h)' = "running"
                    /\ op[h] = "started"
                    /\ op'[h] = "registered"
             /\ (Registered(h) /\ StatusInRegistry(h)' # StatusInRegistry(h)) =>
                    /\ StatusInRegistry(h) = "running"
                    /\ MonitorActs(h)
             /\ MonitorActs(h) =>
                    /\ Registered(h)
                    /\ Contains(SeenStatus(h), "FINISHED")
                           => StatusInRegistry(h)' = "completed"
                    /\ ~Contains(SeenStatus(h), "FINISHED")
                           => /\ StatusInRegistry(h)' = "failed"
                              /\ \/ Contains(SeenStatus(h), "ERROR")
                                 \/ Contains(SeenStatus(h), "ABORTED")]_vars

\* Two scans monitored at once: the monitor of the first has recorded its
\* scan as failed while the second scan is still running and polled.
C25_Witness ==
    /\ \A h \in Handlers : Registered(h)
    /\ op[1] = "done"
    /\ StatusInRegistry(1) = "failed"
    /\ Contains(SeenStatus(1), "ABORTED")
    /\ op[2] = "sleep"
    /\ StatusInRegistry(2) = "running"

\* Both scans monitored to their end, one completed and one failed
C25_WitnessCompleted ==
    /\ \A h \in Handlers : Registered(h)
    /\ op = [h \in Handlers |-> "done"]
    /\ StatusInRegistry(1) = "failed"
    /\ StatusInRegistry(2) = "completed"

\* The kind of file each format is written as
KindOf == [html |-> "text", pdf |-> "pdf", json |-> "json", csv |-> "csv"]

\* C26: when POST /api/report/generate answers with success and a
\* report_path, the output directory holds a file at that path, with the
\* extension and the content of the requested format; a request without
\* scan id, for a scan without results, for an invalid format or whose PDF
\* conversion failed is answered with an error status and no success.
C26_ReportEndpoint ==
    op = "api_generate_report" =>
        /\ "success" \in DOMAIN ret =>
               /\ ret.status = 200
               /\ args.output_format \in DOMAIN KindOf
               /\ ret.report_path.suffix = args.output_format
               /\ FileExists(files, ret.report_path)
               /\ ReadFile(files, ret.report_path).kind = KindOf[args.output_format]
        /\ "success" \notin DOMAIN ret => ret.status \in {400, 404, 500}
        /\ args.scan_id = "" => ret.status = 400
        /\ (args.scan_id # "" /\ scan_results = <<>>) => ret.status \in {404, 500}
        /\ args.output_format \notin DOMAIN KindOf => ret.status \in {400, 404, 500}
        /\ ~args.pdf_ok => ret.status = 500

\* A PDF request answered with success: the PDF is in the directory.
C26_Witness ==
    /\ op = "api_generate_report"
    /\ args.output_format = "pdf"
    /\ args.pdf_ok
    /\ "success" \in DOMAIN ret
    /\ FileExists(files, ret.report_path)
    /\ ReadFile(files, ret.report_path).kind = "pdf"

\* A PDF request whose conversion failed: the answer is an error and the
\* directory holds the HTML fallback only.
C26_WitnessPdfFailure ==
    /\ op = "api_generate_report"
    /\ args.output_format = "pdf"
    /\ args.custom_filename = <<"report">>
    /\ ~args.pdf_ok
    /\ ret.status = 500
    /\ files = {f \in files : f.path = FilePath(<<"report">>, "html")}
    /\ files # {}

\* C27: when the finding list is empty, _generate_report_for_scan writes
\* no file, never enters the loop over the formats and computes no
\* executive summary; when it is not empty, every path in generated_files
\* is the path of a file of the directory, of the format of its extension;
\* and for the format both, the PDF is attempted in a step that finds the
\* HTML report already reported and written.
C27_CliFlow ==
    /\ [](scan_results = <<>> =>
             /\ files = {}
             /\ op \in {"idle", "returned", "raised"}
             /\ op # "idle" => ret = [generated_files |-> <<>>])
    /\ [](op # "idle" =>
             \A i \in 1..Len(ret.generated_files) :
                 /\ FileExists(files, ret.generated_files[i])
                 /\ ReadFile(files, ret.generated_files[i]).kind
                        = KindOf[ret.generated_files[i].suffix])
    /\ [][(/\ op = "for"
            /\ args.output_format = "both"
            /\ args.formats_to_generate # <<>>
            /\ Head(args.formats_to_generate) = "pdf") =>
               /\ Len(ret.generated_files) = 1
               /\ ret.generated_files[1].suffix = "html"
               /\ FileExists(files, ret.generated_files[1])
               /\ ReadFile(files, ret.generated_files[1]).kind = "text"]_vars

\* The format both, run to its end: two files reported and written, the
\* HTML report first, and the summary computed.
C27_Witness ==
    /\ op = "returned"
    /\ scan_results # <<>>
    /\ args.output_format = "both"
    /\ Len(ret.generated_files) = 2
    /\ ret.generated_files[1].suffix = "html"
    /\ ret.generated_files[2].suffix = "pdf"
    /\ \A i \in 1..2 : FileExists(files, ret.generated_files[i])
    /\ "exec_summary" \in DOMAIN ret

\* An empty finding list: the call has returned and nothing was written.
C27_WitnessEmpty ==
    /\ op = "returned"
    /\ scan_results = <<>>
    /\ files = {}
    /\ ret = [generated_files |-> <<>>]

====
